---- MODULE Spec2Model ----
(***************************************************************************)
(* A model of the WhatsApp chat-export parser                              *)
(* (src/src/parsers/whatsapp_parser.py).                                   *)
(*                                                                         *)
(* Text is modelled character by character: a Python str is a sequence of  *)
(* one-character values.  A character is written as a TLA+ string; the     *)
(* characters that have no printable form carry a name ("BOM" is U+FEFF).  *)
(* Regular expressions are data, transcribed from the source, and are run  *)
(* by a backtracking matcher that yields the matches in the priority       *)
(* order of Python's re module; pattern.match() is the first of them.      *)
(***************************************************************************)
EXTENDS Integers, Sequences, FiniteSets, TLC

(***************************************************************************)
(* Characters and the str methods the parser uses                          *)
(***************************************************************************)
Digit == {"0", "1", "2", "3", "4", "5", "6", "7", "8", "9"}

\* the characters str.strip(), str.split() and the regex class \s treat as
\* white space (U+FEFF is not one of them)
Whitespace == {" ", "\t", "\r", "\n"}

\* None, where a str or a number is expected (a sequence holding a value that
\* is no character) and where a dict or a datetime is expected
NONE == <<"None">>
NoneRec == [none |-> TRUE]

\* the empty dict {}
EmptyDict == [empty |-> TRUE]

\* the positions of s that hold no white space
Inked(s) == {i \in 1..Len(s) : s[i] \notin Whitespace}

Least(S) == CHOOSE i \in S : \A j \in S : i <= j
Greatest(S) == CHOOSE i \in S : \A j \in S : j <= i

\* str.lstrip()
LStrip(s) ==
    IF Inked(s) = {} THEN <<>> ELSE SubSeq(s, Least(Inked(s)), Len(s))

\* str.strip()
Strip(s) ==
    IF Inked(s) = {} THEN <<>>
    ELSE SubSeq(s, Least(Inked(s)), Greatest(Inked(s)))

\* s.startswith(k, at position p)
StartsAt(s, k, p) ==
    /\ p + Len(k) - 1 <= Len(s)
    /\ SubSeq(s, p, p + Len(k) - 1) = k

\* k in s
Contains(s, k) == \E p \in 1..(Len(s) + 1) : StartsAt(s, k, p)

\* s.split('\n'): the pieces between the line breaks, empty ones kept
Split(s) ==
    LET breaks == {i \in 1..Len(s) : s[i] = "\n"}
        \* the position of the k-th line break; 0 and Len(s) + 1 bound the text
        BreakAt(k) ==
            IF k = 0 THEN 0
            ELSE IF k > Cardinality(breaks) THEN Len(s) + 1
            ELSE CHOOSE i \in breaks :
                    Cardinality({j \in breaks : j <= i}) = k
    IN  [k \in 1..(Cardinality(breaks) + 1) |->
            SubSeq(s, BreakAt(k - 1) + 1, BreakAt(k) - 1)]

\* len(s.split(' ')): one more than the number of blanks
BlankCount(s) == Cardinality({i \in 1..Len(s) : s[i] = " "}) + 1

\* len(s.split()): the number of maximal runs of non-white-space characters
WordCount(s) ==
    Cardinality({i \in Inked(s) : i = 1 \/ (i - 1) \notin Inked(s)})

\* int(s) of a digit string
DigitValue(c) ==
    CASE c = "0" -> 0 [] c = "1" -> 1 [] c = "2" -> 2 [] c = "3" -> 3
      [] c = "4" -> 4 [] c = "5" -> 5 [] c = "6" -> 6 [] c = "7" -> 7
      [] c = "8" -> 8 [] c = "9" -> 9

RECURSIVE ToInt(_)
ToInt(s) ==
    IF s = <<>> THEN 0
    ELSE 10 * ToInt(SubSeq(s, 1, Len(s) - 1)) + DigitValue(s[Len(s)])

(***************************************************************************)
(* Regular expressions                                                     *)
(***************************************************************************)
\* c{lo,hi} over a character class; hi = -1 is "no upper limit"; greedy
Rep(cs, lo, hi)    == [t |-> "set", cs |-> cs, neg |-> FALSE, lo |-> lo, hi |-> hi]
NotRep(cs, lo, hi) == [t |-> "set", cs |-> cs, neg |-> TRUE, lo |-> lo, hi |-> hi]
Ch(c)       == Rep({c}, 1, 1)
D(lo, hi)   == Rep(Digit, lo, hi)               \* \d{lo,hi}
White(lo)   == Rep(Whitespace, lo, -1)          \* \s+ and \s*
Dot(lo)     == NotRep({"\n"}, lo, -1)           \* .+ and .*
Grp(g, re)  == [t |-> "grp", g |-> g, re |-> re]    \* ( ... )
Opt(re)     == [t |-> "opt", re |-> re]             \* (?: ... )?
Alt(alts)   == [t |-> "alt", alts |-> alts]         \* (?: a | b | ... )
Lit(s)      == [i \in 1..Len(s) |-> Ch(s[i])]       \* a literal string

\* no group has matched yet (match.group(g) is None)
NoGroups == [g \in 1..9 |-> NONE]

InClass(n, c) == IF n.neg THEN c \notin n.cs ELSE c \in n.cs

\* the length of the longest run of class characters at p, at most hi
Run(n, s, p) ==
    LET stop == {i \in p..Len(s) : ~InClass(n, s[i])}
        m    == IF stop = {} THEN Len(s) + 1 - p ELSE Least(stop) - p
    IN  IF n.hi # -1 /\ m > n.hi THEN n.hi ELSE m

\* The positions at which a match of the regex re (a sequence of nodes) can
\* end when it starts at one of the positions P.  A position is the index of
\* the next character to read.
RECURSIVE EndsFrom(_, _, _)
RECURSIVE NodeEnds(_, _, _)

NodeEnds(n, s, P) ==
    CASE n.t = "set" -> UNION {{p + k : k \in n.lo..Run(n, s, p)} : p \in P}
      [] n.t = "grp" -> EndsFrom(n.re, s, P)
      [] n.t = "opt" -> EndsFrom(n.re, s, P) \cup P
      [] n.t = "alt" -> UNION {EndsFrom(n.alts[i], s, P) : i \in 1..Len(n.alts)}

\* (a regex of several nodes is cut in two halves, matched one after the
\* other)
EndsFrom(re, s, P) ==
    CASE P = {} \/ Len(re) = 0 -> P
      [] P # {} /\ Len(re) = 1 -> NodeEnds(re[1], s, P)
      [] P # {} /\ Len(re) > 1 ->
           EndsFrom(SubSeq(re, (Len(re) \div 2) + 1, Len(re)), s,
                    EndsFrom(SubSeq(re, 1, Len(re) \div 2), s, P))

\* re has a match from p
CanMatch(re, s, p) == EndsFrom(re, s, {p}) # {}

\* The match a backtracking matcher finds first among the matches of re
\* from p after which the regex "after" matches, as [pos, caps], or None.
\* The matcher tries the choices of a node in priority order (the longest
\* repetition first, an optional part before its absence, the alternatives
\* from left to right) and keeps the first choice from which the rest can
\* match.
RECURSIVE Path(_, _, _, _, _)
RECURSIVE NodePath(_, _, _, _, _)

NodePath(n, s, p, caps, after) ==
    CASE n.t = "set" ->
           LET ks == n.lo..Run(n, s, p)
               \* a single choice is kept as it is: the rest decides
               c  == IF Cardinality(ks) <= 1 THEN ks
                     ELSE {k \in ks : CanMatch(after, s, p + k)}
           IN  IF c = {} THEN NoneRec
               ELSE [pos |-> p + Greatest(c), caps |-> caps]
      [] n.t = "grp" ->
           LET r == Path(n.re, s, p, caps, after)
           IN  IF r = NoneRec THEN NoneRec
               ELSE [pos |-> r.pos,
                     caps |-> [r.caps EXCEPT ![n.g] = SubSeq(s, p, r.pos - 1)]]
      [] n.t = "opt" ->
           LET r == Path(n.re, s, p, caps, after)
           IN  IF r # NoneRec THEN r
               ELSE IF CanMatch(after, s, p) THEN [pos |-> p, caps |-> caps]
               ELSE NoneRec
      [] n.t = "alt" ->
           LET hit == {i \in 1..Len(n.alts) :
                          Path(n.alts[i], s, p, caps, after) # NoneRec}
           IN  IF hit = {} THEN NoneRec
               ELSE Path(n.alts[Least(hit)], s, p, caps, after)

Path(re, s, p, caps, after) ==
    LET h     == Len(re) \div 2
        left  == SubSeq(re, 1, h)
        right == SubSeq(re, h + 1, Len(re))
        r     == IF Len(re) = 1 THEN NodePath(re[1], s, p, caps, after)
                 ELSE Path(left, s, p, caps, right \o after)
    IN  CASE Len(re) = 0 /\ CanMatch(after, s, p)  -> [pos |-> p, caps |-> caps]
          [] Len(re) = 0 /\ ~CanMatch(after, s, p) -> NoneRec
          [] Len(re) > 0 /\ r = NoneRec            -> NoneRec
          [] Len(re) = 1 /\ r # NoneRec ->
               IF CanMatch(after, s, r.pos) THEN r ELSE NoneRec
          [] Len(re) > 1 /\ r # NoneRec -> Path(right, s, r.pos, r.caps, after)

\* pattern.match(s): the first match at the start of s as [pos, caps], or
\* None.  caps[g] is match.group(g), pos - 1 is match.end().
ReMatch(re, s) == Path(re, s, 1, NoGroups, <<>>)

(***************************************************************************)
(* WhatsAppParser.__init__: the dialect patterns and the media indicators  *)
(***************************************************************************)
\* \d{1,2}/\d{1,2}/\d{2,4}
DateToken == <<D(1, 2), Ch("/"), D(1, 2), Ch("/"), D(2, 4)>>

\* \d{1,2}:\d{2}:\d{2}
TimeTokenSec == <<D(1, 2), Ch(":"), D(2, 2), Ch(":"), D(2, 2)>>

\* \d{1,2}:\d{2}(?::\d{2})?
TimeToken == <<D(1, 2), Ch(":"), D(2, 2), Opt(<<Ch(":"), D(2, 2)>>)>>

\* (?:AM|PM)
AmPm == Alt(<<Lit(<<"A", "M">>), Lit(<<"P", "M">>)>>)

\* (?:joined|left|added|removed|changed)
SystemVerb ==
    Alt(<<Lit(<<"j", "o", "i", "n", "e", "d">>),
          Lit(<<"l", "e", "f", "t">>),
          Lit(<<"a", "d", "d", "e", "d">>),
          Lit(<<"r", "e", "m", "o", "v", "e", "d">>),
          Lit(<<"c", "h", "a", "n", "g", "e", "d">>)>>)

\* \[(date),?\s+(time)\s+(AM|PM)\]\s*([^:]+):\s*(.*)
bracketed_ampm_format ==
    <<Ch("["), Grp(1, DateToken), Rep({","}, 0, 1), White(1),
      Grp(2, TimeTokenSec), White(1), Grp(3, <<AmPm>>), Ch("]"), White(0),
      Grp(4, <<NotRep({":"}, 1, -1)>>), Ch(":"), White(0), Grp(5, <<Dot(0)>>)>>

\* (date),?\s+(time)\s*(?:AM|PM)?\s*-\s*([^:]+):\s*(.*)
us_format ==
    <<Grp(1, DateToken), Rep({","}, 0, 1), White(1), Grp(2, TimeToken),
      White(0), Opt(<<AmPm>>), White(0), Ch("-"), White(0),
      Grp(3, <<NotRep({":"}, 1, -1)>>), Ch(":"), White(0), Grp(4, <<Dot(0)>>)>>

\* (date),?\s+(time)\s*-\s*([^:]+):\s*(.*)
eu_format ==
    <<Grp(1, DateToken), Rep({","}, 0, 1), White(1), Grp(2, TimeToken),
      White(0), Ch("-"), White(0),
      Grp(3, <<NotRep({":"}, 1, -1)>>), Ch(":"), White(0), Grp(4, <<Dot(0)>>)>>

\* \[(date),?\s+(time)\]\s*([^:]+):\s*(.*)
bracketed_format ==
    <<Ch("["), Grp(1, DateToken), Rep({","}, 0, 1), White(1),
      Grp(2, TimeTokenSec), Ch("]"), White(0),
      Grp(3, <<NotRep({":"}, 1, -1)>>), Ch(":"), White(0), Grp(4, <<Dot(0)>>)>>

\* (date),?\s+(time)\s*(?:AM|PM)?\s*-\s*(.*(?:joined|left|added|removed|changed).*)
system_message ==
    <<Grp(1, DateToken), Rep({","}, 0, 1), White(1), Grp(2, TimeToken),
      White(0), Opt(<<AmPm>>), White(0), Ch("-"), White(0),
      Grp(3, <<Dot(0), SystemVerb, Dot(0)>>)>>

\* self.patterns, in the order in which the dict holds and yields them
patterns ==
    <<[name |-> "bracketed_ampm_format", re |-> bracketed_ampm_format],
      [name |-> "us_format",             re |-> us_format],
      [name |-> "eu_format",             re |-> eu_format],
      [name |-> "bracketed_format",      re |-> bracketed_format],
      [name |-> "system_message",        re |-> system_message]>>

media_patterns ==
    <<
      <<"<", "M", "e", "d", "i", "a", " ", "o", "m", "i", "t", "t", "e",
        "d", ">">>,
      <<"i", "m", "a", "g", "e", " ", "o", "m", "i", "t", "t", "e", "d">>,
      <<"v", "i", "d", "e", "o", " ", "o", "m", "i", "t", "t", "e", "d">>,
      <<"a", "u", "d", "i", "o", " ", "o", "m", "i", "t", "t", "e", "d">>,
      <<"d", "o", "c", "u", "m", "e", "n", "t", " ", "o", "m", "i", "t",
        "t", "e", "d">>,
      <<"s", "t", "i", "c", "k", "e", "r", " ", "o", "m", "i", "t", "t",
        "e", "d">>,
      <<"G", "I", "F", " ", "o", "m", "i", "t", "t", "e", "d">>
    >>

\* the local list of _parse_message_line
system_keywords ==
    <<
      <<"M", "e", "s", "s", "a", "g", "e", "s", " ", "a", "n", "d", " ",
        "c", "a", "l", "l", "s", " ", "a", "r", "e", " ", "e", "n",
        "d", "-", "t", "o", "-", "e", "n", "d", " ", "e", "n", "c",
        "r", "y", "p", "t", "e", "d">>,
      <<"c", "r", "e", "a", "t", "e", "d", " ", "g", "r", "o", "u", "p">>,
      <<"a", "d", "d", "e", "d">>,
      <<"r", "e", "m", "o", "v", "e", "d">>,
      <<"l", "e", "f", "t">>,
      <<"j", "o", "i", "n", "e", "d">>,
      <<"c", "h", "a", "n", "g", "e", "d", " ", "t", "h", "e", " ", "s",
        "u", "b", "j", "e", "c", "t">>,
      <<"c", "h", "a", "n", "g", "e", "d", " ", "t", "h", "i", "s", " ",
        "g", "r", "o", "u", "p">>,
      <<"c", "h", "a", "n", "g", "e", "d", " ", "t", "h", "e", " ", "g",
        "r", "o", "u", "p", " ", "d", "e", "s", "c", "r", "i", "p",
        "t", "i", "o", "n">>,
      <<"s", "e", "c", "u", "r", "i", "t", "y", " ", "c", "o", "d", "e",
        " ", "c", "h", "a", "n", "g", "e", "d">>,
      <<"Y", "o", "u", "'", "r", "e", " ", "n", "o", "w", " ", "a", "n",
        " ", "a", "d", "m", "i", "n">>,
      <<"Y", "o", "u", " ", "d", "e", "l", "e", "t", "e", "d", " ", "t",
        "h", "i", "s", " ", "m", "e", "s", "s", "a", "g", "e">>,
      <<"T", "h", "i", "s", " ", "m", "e", "s", "s", "a", "g", "e", " ",
        "w", "a", "s", " ", "d", "e", "l", "e", "t", "e", "d">>,
      <<"M", "i", "s", "s", "e", "d", " ", "v", "o", "i", "c", "e", " ",
        "c", "a", "l", "l">>,
      <<"M", "i", "s", "s", "e", "d", " ", "v", "i", "d", "e", "o", " ",
        "c", "a", "l", "l">>
    >>

\* any(keyword in text for keyword in keywords)
AnyKeywordIn(keywords, text) ==
    \E i \in 1..Len(keywords) : Contains(text, keywords[i])

(***************************************************************************)
(* datetime.strptime, as _parse_timestamp calls it.  A format is the regex *)
(* the library compiles it to; the groups are numbered                     *)
(*   1 %m   2 %d   3 %y   4 %Y   5 %H   6 %I   7 %M   8 %S   9 %p          *)
(***************************************************************************)
Dir_m == Grp(1, <<Alt(<<<<Ch("1"), Rep({"0", "1", "2"}, 1, 1)>>,
                        <<Ch("0"), Rep(Digit \ {"0"}, 1, 1)>>,
                        <<Rep(Digit \ {"0"}, 1, 1)>>>>)>>)
Dir_d == Grp(2, <<Alt(<<<<Ch("3"), Rep({"0", "1"}, 1, 1)>>,
                        <<Rep({"1", "2"}, 1, 1), D(1, 1)>>,
                        <<Ch("0"), Rep(Digit \ {"0"}, 1, 1)>>,
                        <<Rep(Digit \ {"0"}, 1, 1)>>,
                        <<Ch(" "), Rep(Digit \ {"0"}, 1, 1)>>>>)>>)
Dir_y == Grp(3, <<D(2, 2)>>)
Dir_Y == Grp(4, <<D(4, 4)>>)
Dir_H == Grp(5, <<Alt(<<<<Ch("2"), Rep({"0", "1", "2", "3"}, 1, 1)>>,
                        <<Rep({"0", "1"}, 1, 1), D(1, 1)>>,
                        <<D(1, 1)>>>>)>>)
Dir_I == Grp(6, <<Alt(<<<<Ch("1"), Rep({"0", "1", "2"}, 1, 1)>>,
                        <<Ch("0"), Rep(Digit \ {"0"}, 1, 1)>>,
                        <<Rep(Digit \ {"0"}, 1, 1)>>>>)>>)
Dir_M == Grp(7, <<Alt(<<<<Rep({"0", "1", "2", "3", "4", "5"}, 1, 1), D(1, 1)>>,
                        <<D(1, 1)>>>>)>>)
Dir_S == Grp(8, <<Alt(<<<<Ch("6"), Rep({"0", "1"}, 1, 1)>>,
                        <<Rep({"0", "1", "2", "3", "4", "5"}, 1, 1), D(1, 1)>>,
                        <<D(1, 1)>>>>)>>)
\* the locale's am/pm, matched without regard to case
Dir_p == Grp(9, <<Rep({"A", "a", "P", "p"}, 1, 1), Rep({"M", "m"}, 1, 1)>>)

\* a list of date layouts that starts with the day/month ones
DateFormatsDayFirst ==
    <<<<Dir_d, Ch("/"), Dir_m, Ch("/"), Dir_y>>,      \* '%d/%m/%y'
      <<Dir_d, Ch("/"), Dir_m, Ch("/"), Dir_Y>>,      \* '%d/%m/%Y'
      <<Dir_m, Ch("/"), Dir_d, Ch("/"), Dir_y>>,      \* '%m/%d/%y'
      <<Dir_m, Ch("/"), Dir_d, Ch("/"), Dir_Y>>,      \* '%m/%d/%Y'
      <<Dir_Y, Ch("/"), Dir_m, Ch("/"), Dir_d>>>>     \* '%Y/%m/%d'

date_formats ==
    <<<<Dir_m, Ch("/"), Dir_d, Ch("/"), Dir_y>>,      \* '%m/%d/%y'
      <<Dir_m, Ch("/"), Dir_d, Ch("/"), Dir_Y>>,      \* '%m/%d/%Y'
      <<Dir_d, Ch("/"), Dir_m, Ch("/"), Dir_y>>,      \* '%d/%m/%y'
      <<Dir_d, Ch("/"), Dir_m, Ch("/"), Dir_Y>>,      \* '%d/%m/%Y'
      <<Dir_Y, Ch("/"), Dir_m, Ch("/"), Dir_d>>>>     \* '%Y/%m/%d'

time_formats ==
    <<<<Dir_H, Ch(":"), Dir_M, Ch(":"), Dir_S>>,                 \* '%H:%M:%S'
      <<Dir_H, Ch(":"), Dir_M>>,                                 \* '%H:%M'
      <<Dir_I, Ch(":"), Dir_M, Ch(":"), Dir_S, White(1), Dir_p>>, \* '%I:%M:%S %p'
      <<Dir_I, Ch(":"), Dir_M, White(1), Dir_p>>>>               \* '%I:%M %p'

IsLeap(y) == (y % 4 = 0 /\ y % 100 # 0) \/ y % 400 = 0

DaysInMonth(y, m) ==
    IF m = 2 THEN (IF IsLeap(y) THEN 29 ELSE 28)
    ELSE IF m \in {4, 6, 9, 11} THEN 30 ELSE 31

\* the year of the groups g: %Y, or %y with the century of the library
YearOf(g) ==
    IF g[4] # NONE THEN ToInt(g[4])
    ELSE IF ToInt(g[3]) <= 68 THEN 2000 + ToInt(g[3])
    ELSE 1900 + ToInt(g[3])

\* the hour of the groups g: %H, or %I with %p
HourOf(g) ==
    IF g[5] # NONE THEN ToInt(g[5])
    ELSE IF g[9] # NONE /\ g[9][1] \in {"P", "p"}
         THEN (IF ToInt(g[6]) = 12 THEN 12 ELSE ToInt(g[6]) + 12)
         ELSE (IF ToInt(g[6]) = 12 THEN 0 ELSE ToInt(g[6]))

\* datetime(year, month, day, hour, minute, second), None where it raises
Datetime(year, month, day, hour, minute, second) ==
    IF year < 1 \/ day > DaysInMonth(year, month) \/ second > 59
    THEN NoneRec
    ELSE [year |-> year, month |-> month, day |-> day,
          hour |-> hour, minute |-> minute, second |-> second]

\* datetime.strptime(s, fmt): the datetime, or None where it raises
\* ValueError (no match, unconverted data, or a date that does not exist)
Strptime(s, fmt) ==
    LET Convert(m) ==
            IF m = NoneRec THEN NoneRec
            ELSE IF m.pos # Len(s) + 1 THEN NoneRec
            ELSE Datetime(YearOf(m.caps), ToInt(m.caps[1]),
                          ToInt(LStrip(m.caps[2])), HourOf(m.caps),
                          ToInt(m.caps[7]),
                          IF m.caps[8] # NONE THEN ToInt(m.caps[8]) ELSE 0)
    IN  Convert(ReMatch(fmt, s))

(***************************************************************************)
(* WhatsAppParser._parse_timestamp                                         *)
(***************************************************************************)
\* what logger.warning / logger.error / logger.info write, by level and call
LogTimestamp  == "WARNING Could not parse timestamp"
LogNoMessages == "WARNING No messages found"
LogError      == "ERROR Error parsing"
LogParsing    == "INFO Parsing file"

\* f"{date_fmt} {time_fmt}" of the k-th pass of the two nested loops; the
\* pass after the last is the "simple approach", '%m/%d/%y %H:%M'
NumDateFormats == Len(date_formats)
NumTimeFormats == Len(time_formats)
FormatOfPass(k) ==
    IF k > NumDateFormats * NumTimeFormats
    THEN date_formats[1] \o <<White(1)>> \o time_formats[2]
    ELSE date_formats[((k - 1) \div NumTimeFormats) + 1]
             \o <<White(1)>> \o time_formats[((k - 1) % NumTimeFormats) + 1]

\* the passes whose strptime does not raise, each with what it returns
TryFormats(datetime_str) ==
    {r \in {[pass |-> k, datetime |-> Strptime(datetime_str, FormatOfPass(k))] :
                k \in 1..(NumDateFormats * NumTimeFormats + 1)} :
        r.datetime # NoneRec}

\* a fallback that returns datetime.now() without the logger.warning
SilentFallback(now) == [timestamp |-> now, log |-> <<>>]

\* "If all else fails": logger.warning and datetime.now()
Fallback(now) == [timestamp |-> now, log |-> <<LogTimestamp>>]

\* returns [timestamp, log]: the datetime and what the call logged; now is
\* what datetime.now() returns at the time of the call.  The function
\* returns from the first pass that does not raise.
_parse_timestamp(date_str, time_str, now) ==
    LET Return(parsed) ==
            IF parsed = {} THEN Fallback(now)
            ELSE [timestamp |->
                      (CHOOSE r \in parsed : \A o \in parsed : r.pass <= o.pass).datetime,
                  log |-> <<>>]
    IN  Return(TryFormats(date_str \o <<" ">> \o time_str))

(***************************************************************************)
(* WhatsAppParser._parse_message_line                                      *)
(***************************************************************************)
System == <<"S", "y", "s", "t", "e", "m">>

\* a test that finds no keyword in any text
NeverSystem(message) == FALSE

\* a test that knows the first keyword only
FirstKeywordOnly(message) == Contains(message, system_keywords[1])

\* is_system = any(keyword in message for keyword in system_keywords)
IsSystemText(message) == AnyKeywordIn(system_keywords, message)

\* a sender that is kept whatever is_system says
SenderKept(is_system, sender) == sender

\* 'System' if is_system else sender
SenderOf(is_system, sender) == IF is_system THEN System ELSE sender

\* the dict a branch returns, with what its call of _parse_timestamp logged
MessageDict(ts, sender, message, is_system) ==
    [data |-> [timestamp |-> ts.timestamp, sender |-> sender,
               message |-> message, is_system |-> is_system],
     log |-> ts.log]

\* the branches of the patterns with a sender
SenderMessage(ts, sender, message) ==
    MessageDict(ts, SenderOf(IsSystemText(message), sender), message,
                IsSystemText(message))

\* the body of the loop for one pattern that matched with groups g
MessageOfMatch(pattern_name, g, now) ==
    CASE pattern_name = "system_message" ->
           MessageDict(_parse_timestamp(g[1], g[2], now), System, g[3], TRUE)
      [] pattern_name = "bracketed_ampm_format" ->
           SenderMessage(_parse_timestamp(g[1], g[2] \o <<" ">> \o g[3], now),
                         Strip(g[4]), Strip(g[5]))
      [] pattern_name \notin {"system_message", "bracketed_ampm_format"} ->
           SenderMessage(_parse_timestamp(g[1], g[2], now),
                         Strip(g[3]), Strip(g[4]))

\* the patterns that match the line, each with its place in self.patterns
Matching(line) ==
    {m \in {[i |-> i, match |-> ReMatch(patterns[i].re, line)] :
                i \in 1..Len(patterns)} :
        m.match # NoneRec}

\* the one a loop would keep that went on to the last pattern
LastOf(matching) == CHOOSE m \in matching : \A o \in matching : o.i <= m.i

\* the one the loop over self.patterns meets first
FirstOf(matching) == CHOOSE m \in matching : \A o \in matching : m.i <= o.i

\* The loop over self.patterns returns at the first pattern that matches.
\* Returns [data, log]: the message dict or None, and what the call logged.
_parse_message_line(line, now) ==
    LET Return(matching) ==
            IF matching = {} THEN [data |-> NoneRec, log |-> <<>>]
            ELSE MessageOfMatch(patterns[FirstOf(matching).i].name,
                                FirstOf(matching).match.caps, now)
    IN  Return(Matching(line))

\* the name of the pattern at which the loop over self.patterns returns for
\* the line, "none" when it runs to its end
MatchedPattern(line) ==
    LET Name(matching) ==
            IF matching = {} THEN "none" ELSE patterns[FirstOf(matching).i].name
    IN  Name(Matching(line))

(***************************************************************************)
(* datetime arithmetic                                                     *)
(***************************************************************************)
\* date.toordinal(): the number of days since 31 December of the year 0
RECURSIVE DaysBeforeMonth(_, _)
DaysBeforeMonth(y, m) ==
    IF m = 1 THEN 0 ELSE DaysBeforeMonth(y, m - 1) + DaysInMonth(y, m - 1)

ToOrdinal(dt) ==
    LET y == dt.year - 1
    IN  y * 365 + (y \div 4) - (y \div 100) + (y \div 400)
          + DaysBeforeMonth(dt.year, dt.month) + dt.day

SecondOfDay(dt) == dt.hour * 3600 + dt.minute * 60 + dt.second

\* a difference taken the other way round: (b - a).total_seconds()
SecondsReversed(a, b) ==
    (ToOrdinal(b) - ToOrdinal(a)) * 86400 + SecondOfDay(b) - SecondOfDay(a)

\* (a - b).total_seconds()
SecondsBetween(a, b) ==
    (ToOrdinal(a) - ToOrdinal(b)) * 86400 + SecondOfDay(a) - SecondOfDay(b)

\* a < b for datetimes
Earlier(a, b) ==
    \/ ToOrdinal(a) < ToOrdinal(b)
    \/ ToOrdinal(a) = ToOrdinal(b) /\ SecondOfDay(a) < SecondOfDay(b)

\* datetime.weekday(): Monday is 0
Weekday(dt) == (ToOrdinal(dt) + 6) % 7

(***************************************************************************)
(* WhatsAppParser._process_messages and _extract_emojis                    *)
(***************************************************************************)
\* the characters emoji.EMOJI_DATA holds, among those of the model
EMOJI_DATA == {"U+1F600", "U+2764"}

\* [char for char in text if char in emoji.EMOJI_DATA]
_extract_emojis(text) == SelectSeq(text, LAMBDA c : c \in EMOJI_DATA)

\* an enumeration that counts from 1
EnumerateFromOne(k) == k

\* enumerate(messages): the index i paired with the k-th element
Enumerate(k) == k - 1

\* the body of the loop for the k-th element msg of messages, i its index
ProcessMessage(messages, k) ==
    LET i   == Enumerate(k)
        msg == messages[k]
    IN  [timestamp   |-> msg.timestamp,
         sender      |-> msg.sender,
         message     |-> msg.message,
         is_system   |-> msg.is_system,
         message_id  |-> i,
         is_media    |-> AnyKeywordIn(media_patterns, msg.message),
         emojis      |-> _extract_emojis(msg.message),
         emoji_count |-> Len(_extract_emojis(msg.message)),
         message_length |-> Len(msg.message),
         word_count  |-> IF msg.message # <<>> THEN WordCount(msg.message)
                         ELSE 0,
         hour        |-> msg.timestamp.hour,
         day_of_week |-> Weekday(msg.timestamp),
         date        |-> [year |-> msg.timestamp.year, month |-> msg.timestamp.month,
                          day |-> msg.timestamp.day],
         response_time_seconds |->
             IF i > 0 THEN SecondsBetween(msg.timestamp, messages[i].timestamp)
             ELSE NONE]

_process_messages(messages) ==
    [k \in 1..Len(messages) |-> ProcessMessage(messages, k)]

(***************************************************************************)
(* WhatsAppParser._read_file_with_encoding.  A file is a sequence of       *)
(* bytes; an ASCII byte is written as its character, the others by their   *)
(* hexadecimal value.                                                      *)
(***************************************************************************)
encodings == <<"utf-8", "utf-8-sig", "latin-1", "cp1252">>

HighBytes == {"x81", "xA9", "xBB", "xBF", "xC3", "xE9", "xEF"}

BomBytes == <<"xEF", "xBB", "xBF">>

\* The bytes that continue a multi-byte sequence are valid only right
\* after its lead byte: 0xEF 0xBB 0xBF is U+FEFF and 0xC3 0xA9 is U+00E9.
Utf8Valid(b) ==
    \A i \in 1..Len(b) :
        CASE b[i] = "xEF" -> StartsAt(b, BomBytes, i)
          [] b[i] = "xBB" -> i > 1 /\ StartsAt(b, BomBytes, i - 1)
          [] b[i] = "xBF" -> i > 2 /\ StartsAt(b, BomBytes, i - 2)
          [] b[i] = "xC3" -> StartsAt(b, <<"xC3", "xA9">>, i)
          [] b[i] = "xA9" -> i > 1 /\ StartsAt(b, <<"xC3", "xA9">>, i - 1)
          [] b[i] \in HighBytes -> FALSE
          [] OTHER -> TRUE

\* bytes.decode('utf-8'): the str, or None where it raises UnicodeDecodeError
DecodeUtf8(b) ==
    IF ~Utf8Valid(b) THEN NONE
    ELSE LET leads == SelectSeq(b, LAMBDA x : x \notin {"xBB", "xBF", "xA9"})
         IN  [i \in 1..Len(leads) |->
                CASE leads[i] = "xEF" -> "BOM"
                  [] leads[i] = "xC3" -> "U+00E9"
                  [] OTHER -> leads[i]]

\* 'utf-8-sig': a leading byte-order mark is dropped
DecodeUtf8Sig(b) ==
    IF StartsAt(b, BomBytes, 1) THEN DecodeUtf8(SubSeq(b, 4, Len(b)))
    ELSE DecodeUtf8(b)

\* 'latin-1': byte n is the character U+00n, whatever n
Latin1Char(x) ==
    CASE x = "x81" -> "U+0081" [] x = "xA9" -> "U+00A9" [] x = "xBB" -> "U+00BB"
      [] x = "xBF" -> "U+00BF" [] x = "xC3" -> "U+00C3" [] x = "xE9" -> "U+00E9"
      [] x = "xEF" -> "U+00EF" [] OTHER -> x

\* a decoder that knows the ASCII bytes only
DecodeAscii(b) ==
    IF \E i \in 1..Len(b) : b[i] \in HighBytes THEN NONE ELSE b

DecodeLatin1(b) == [i \in 1..Len(b) |-> Latin1Char(b[i])]

\* 'cp1252': as Latin-1 from 0xA0 on; 0x81 is one of its undefined bytes
DecodeCp1252(b) ==
    IF \E i \in 1..Len(b) : b[i] = "x81" THEN NONE ELSE DecodeLatin1(b)

\* a reader that knows UTF-8 only, whatever encoding it is asked for
DecodeUtf8Only(encoding, b) == DecodeUtf8(b)

Decode(encoding, b) ==
    CASE encoding = "utf-8"     -> DecodeUtf8(b)
      [] encoding = "utf-8-sig" -> DecodeUtf8Sig(b)
      [] encoding = "latin-1"   -> DecodeLatin1(b)
      [] encoding = "cp1252"    -> DecodeCp1252(b)

\* open(..., 'r') reads in text mode: '\r\n' and '\r' come out as '\n'
UniversalNewlines(s) ==
    LET kept == SelectSeq([i \in 1..Len(s) |-> i],
                          LAMBDA i : ~(s[i] = "\n" /\ i > 1 /\ s[i - 1] = "\r"))
    IN  [k \in 1..Len(kept) |-> IF s[kept[k]] = "\r" THEN "\n" ELSE s[kept[k]]]

\* file.read() under the given encoding: the str or None (UnicodeDecodeError)
ReadWith(encoding, b) ==
    LET Text(d) == IF d = NONE THEN NONE ELSE UniversalNewlines(d)
    IN  Text(Decode(encoding, b))

(***************************************************************************)
(* str helpers of the metadata functions                                   *)
(***************************************************************************)
\* the characters of the model in code point order ("BOM" is U+FEFF)
CodePointOrder ==
    <<"\t", "\n", "\r", " ", "!", "'", "(", ")", "+", ",", "-", ".", "/",
      "0", "1", "2", "3", "4", "5", "6", "7", "8", "9", ":", "<",
      ">", "A", "B", "C", "D", "E", "F", "G", "H", "I", "J", "K",
      "L", "M", "N", "O", "P", "Q", "R", "S", "T", "U", "V", "W",
      "X", "Y", "Z", "[", "]", "_", "a", "b", "c", "d", "e", "f",
      "g", "h", "i", "j", "k", "l", "m", "n", "o", "p", "q", "r",
      "s", "t", "u", "v", "w", "x", "y", "z", "U+0081", "U+00A9",
      "U+00BB", "U+00BF", "U+00C3", "U+00E9", "U+00EF", "U+2764",
      "BOM", "U+1F600">>

Ord(c) == CHOOSE i \in 1..Len(CodePointOrder) : CodePointOrder[i] = c

\* a < b for str
RECURSIVE StrLess(_, _)
StrLess(a, b) ==
    IF b = <<>> THEN FALSE
    ELSE IF a = <<>> THEN TRUE
    ELSE IF Head(a) = Head(b) THEN StrLess(Tail(a), Tail(b))
    ELSE Ord(Head(a)) < Ord(Head(b))

\* sorted(list(S)) for a set of str
RECURSIVE Sorted(_)
Sorted(S) ==
    IF S = {} THEN <<>>
    ELSE LET least == CHOOSE x \in S : \A y \in S \ {x} : StrLess(x, y)
         IN  <<least>> \o Sorted(S \ {least})

\* s.replace(old, new)
RECURSIVE Replace(_, _, _)
Replace(s, old, new) ==
    IF s = <<>> THEN <<>>
    ELSE IF StartsAt(s, old, 1)
    THEN new \o Replace(SubSeq(s, Len(old) + 1, Len(s)), old, new)
    ELSE <<Head(s)>> \o Replace(Tail(s), old, new)

\* str(n) for n >= 0
RECURSIVE Str(_)
Str(n) ==
    LET d == <<"0", "1", "2", "3", "4", "5", "6", "7", "8", "9">>[(n % 10) + 1]
    IN  IF n < 10 THEN <<d>> ELSE Str(n \div 10) \o <<d>>

\* the greatest position of c in s, 0 if there is none (s.rfind(c) + 1)
RFind(s, c) ==
    LET at == {i \in 1..Len(s) : s[i] = c}
    IN  IF at = {} THEN 0 ELSE Greatest(at)

\* Path(file_path).stem
Stem(file_path) ==
    LET name == SubSeq(file_path, RFind(file_path, "/") + 1, Len(file_path))
        dot  == RFind(name, ".")
    IN  IF 1 < dot /\ dot < Len(name) THEN SubSeq(name, 1, dot - 1) ELSE name

(***************************************************************************)
(* WhatsAppParser._extract_chat_name, _extract_participants and            *)
(* _get_date_range                                                         *)
(***************************************************************************)
\* set(msg['sender'] for msg in messages if not msg.get('is_system', False))
NonSystemSenders(messages) ==
    {messages[i].sender : i \in {j \in 1..Len(messages) : ~messages[j].is_system}}

\* no keyword at all
NoKeywords == <<>>

you_keywords == <<<<"Y", "o", "u">>, <<"y", "o", "u">>, <<"+", "1">>, <<"M", "e">>>>

\* The values the function can return.  other_person lists the set in its
\* iteration order, which is not fixed for a set of str: any of its members
\* can be other_person[0].
_extract_chat_name(file_path, messages) ==
    LET filename     == Stem(file_path)
        participants == NonSystemSenders(messages)
        other_person == {q \in participants : ~AnyKeywordIn(you_keywords, q)}
    IN  IF Contains(filename, <<"W", "h", "a", "t", "s", "A", "p", "p", " ",
                                "C", "h", "a", "t", " ", "w", "i", "t", "h">>)
        THEN {Strip(Replace(filename,
                            <<"W", "h", "a", "t", "s", "A", "p", "p", " ",
                              "C", "h", "a", "t", " ", "w", "i", "t", "h", " ">>,
                            <<>>))}
        ELSE IF Cardinality(participants) > 2
        THEN {<<"G", "r", "o", "u", "p", " ", "C", "h", "a", "t", " ", "(">>
                \o Str(Cardinality(participants))
                \o <<" ", "p", "a", "r", "t", "i", "c", "i", "p", "a", "n", "t",
                     "s", ")">>}
        ELSE IF Cardinality(participants) = 2
        THEN (IF other_person # {} THEN other_person ELSE {filename})
        ELSE {filename}

_extract_participants(messages) == Sorted(NonSystemSenders(messages))

\* the timestamps of the first and of the last message
FirstAndLast(messages) ==
    IF messages = <<>> THEN EmptyDict
    ELSE [start_date |-> messages[1].timestamp,
          end_date   |-> messages[Len(messages)].timestamp]

\* min(timestamps) and max(timestamps): the first least and the first
\* greatest element of the list
_get_date_range(messages) ==
    IF messages = <<>> THEN EmptyDict
    ELSE
      LET n    == Len(messages)
          ts   == [i \in 1..n |-> messages[i].timestamp]
          imin == CHOOSE i \in 1..n :
                    /\ \A j \in 1..n : ~Earlier(ts[j], ts[i])
                    /\ \A j \in 1..(i - 1) : Earlier(ts[i], ts[j])
          imax == CHOOSE i \in 1..n :
                    /\ \A j \in 1..n : ~Earlier(ts[i], ts[j])
                    /\ \A j \in 1..(i - 1) : Earlier(ts[j], ts[i])
      IN  [start_date |-> ts[imin], end_date |-> ts[imax]]

(***************************************************************************)
(* The inputs: files of up to MaxLines lines drawn from LinePool           *)
(***************************************************************************)
MaxLines == 3

\* the wall clock is read as a second of one minute, 0..MaxClock
MaxClock == 1

\* an empty line
LineBlank ==
    <<>>

\* a line of white space
LineSpaces ==
    <<" ", "\t">>

\* plain text
LineText ==
    <<"o", "k">>

\* plain text with leading and trailing white space, a service phrase in it
LineIndented ==
    <<" ", " ", "l", "e", "f", "t", " ">>

\* unbracketed header
LineAl ==
    <<"1", "/", "5", "/", "2", "4", ",", " ", "1", "0", ":", "0", "0", " ",
      "-", " ", "A", "l", ":", " ", "H", "i">>

\* unbracketed header, earlier, a service phrase in the body
LineBobLeft ==
    <<"1", "/", "5", "/", "2", "4", ",", " ", "9", ":", "5", "8", " ", "-",
      " ", "B", "o", "b", ":", " ", "I", " ", "l", "e", "f", "t">>

\* unbracketed header, a service phrase in the sender only
LineCleft ==
    <<"1", "/", "5", "/", "2", "4", ",", " ", "1", "0", ":", "0", "5", " ",
      "-", " ", "C", "l", "e", "f", "t", ":", " ", "y", "o">>

\* service notice without sender
LineJoined ==
    <<"1", "/", "5", "/", "2", "4", ",", " ", "1", "0", ":", "0", "6", " ",
      "-", " ", "B", "o", "b", " ", "j", "o", "i", "n", "e", "d">>

\* bracketed header with meridiem
LineBracketPm ==
    <<"[", "1", "/", "5", "/", "2", "4", ",", " ", "1", ":", "0", "2", ":",
      "0", "3", " ", "P", "M", "]", " ", "A", "l", ":", " ", "H",
      "i">>

\* bracketed header with meridiem, a service phrase in the body
LineBracketAmAdded ==
    <<"[", "1", "/", "5", "/", "2", "4", ",", " ", "1", "1", ":", "0", "2",
      ":", "0", "3", " ", "A", "M", "]", " ", "B", "o", "b", ":",
      " ", "a", "d", "d", "e", "d">>

\* bracketed header, day first, a service phrase in the body
LineBracket ==
    <<"[", "2", "5", "/", "1", "2", "/", "2", "0", "2", "3", ",", " ", "1",
      "3", ":", "0", "2", ":", "0", "3", "]", " ", "B", "o", "b",
      ":", " ", "x", " ", "a", "d", "d", "e", "d">>

\* header whose date no format parses
LineBadDate ==
    <<"1", "3", "/", "1", "3", "/", "2", "4", ",", " ", "1", "0", ":", "0",
      "0", " ", "-", " ", "A", "l", ":", " ", "H", "i">>

\* plain text with the Latin-1 byte 0xE9
LineLatin ==
    <<"c", "a", "f", "xE9">>

LinePool ==
    {LineBlank, LineSpaces, LineText, LineIndented, LineAl, LineBobLeft,
     LineCleft, LineJoined, LineBracketPm, LineBracketAmAdded, LineBracket,
     LineBadDate, LineLatin}

\* a chat of four lines: two headers, a continuation, and a header whose
\* body holds a service phrase
ScenarioLines ==
    << <<"1", "/", "5", "/", "2", "4", ",", " ", "1", "0", ":", "0", "0",
          " ", "-", " ", "A", "l", "i", "c", "e", ":", " ", "H",
          "i", " ", "t", "h", "e", "r", "e">>,
       <<"1", "/", "5", "/", "2", "4", ",", " ", "1", "0", ":", "0", "1",
          " ", "-", " ", "B", "o", "b", ":", " ", "H", "e", "l",
          "l", "o", "!">>,
       <<"T", "h", "i", "s", " ", "i", "s", " ", "a", " ", "c", "o", "n",
          "t", "i", "n", "u", "a", "t", "i", "o", "n">>,
       <<"1", "/", "5", "/", "2", "4", ",", " ", "1", "0", ":", "0", "5",
          " ", "-", " ", "A", "l", "i", "c", "e", ":", " ", "B",
          "o", "b", " ", "j", "o", "i", "n", "e", "d", " ", "u",
          "s", "i", "n", "g", " ", "a", "n", " ", "i", "n", "v",
          "i", "t", "e", " ", "l", "i", "n", "k">> >>

\* unbracketed header of a member whose name is System
LineSystemUser ==
    <<"1", "/", "5", "/", "2", "4", ",", " ", "1", "0", ":", "0", "0", " ",
      "-", " ", "S", "y", "s", "t", "e", "m", ":", " ", "H", "i">>

\* unbracketed header with meridiem, an afternoon hour
LineAlPm ==
    <<"1", "/", "5", "/", "2", "4", ",", " ", "1", ":", "0", "2", " ", "P",
      "M", " ", "-", " ", "A", "l", ":", " ", "H", "i">>

\* unbracketed header with meridiem, the hour after midnight
LineAlMidnight ==
    <<"1", "/", "5", "/", "2", "4", ",", " ", "1", "2", ":", "0", "0", " ",
      "A", "M", " ", "-", " ", "A", "l", ":", " ", "H", "i">>

\* unbracketed header with nothing after the colon
LineAlEmpty ==
    <<"1", "/", "5", "/", "2", "4", ",", " ", "1", "0", ":", "0", "0", " ",
    "-", " ", "A", "l", ":">>

\* plain text that holds a media placeholder
LineMediaOmitted ==
    <<"<", "M", "e", "d", "i", "a", " ", "o", "m", "i", "t", "t", "e", "d",
    ">">>

\* unbracketed header after the bytes of a UTF-8 byte-order mark, as at the
\* start of a file that has one
LineBomAl == BomBytes \o LineAl

\* chats of fixed lines, besides those drawn from the pool
ExtraChats ==
    {<<LineSystemUser>>, <<LineAlPm, LineAlMidnight>>, <<LineAlEmpty>>,
     <<LineAlEmpty, LineMediaOmitted>>, <<LineAl, LineMediaOmitted>>,
     <<LineBomAl>>, <<LineBomAl, LineBobLeft>>}

\* the lines of the files: those of the pool and those of the fixed chats
AllLines ==
    LinePool \cup {ScenarioLines[i] : i \in 1..Len(ScenarioLines)}
             \cup UNION {{c[i] : i \in 1..Len(c)} : c \in ExtraChats}

ChatPath ==
    <<"c", "h", "a", "t", "s", "/", "c", "h", "a", "t", ".", "t", "x", "t">>

RECURSIVE JoinLines(_)
JoinLines(ls) ==
    IF ls = <<>> THEN <<>>
    ELSE IF Len(ls) = 1 THEN ls[1]
    ELSE ls[1] \o <<"\n">> \o JoinLines(Tail(ls))

LineSeqs ==
    UNION {[1..n -> LinePool] : n \in 0..MaxLines}
        \cup {ScenarioLines} \cup ExtraChats

\* what parse_file can be called on: a path, whether it can be opened, and
\* the bytes it holds
Files ==
    {[path |-> ChatPath, exists |-> TRUE, data |-> JoinLines(ls)] : ls \in LineSeqs}
      \cup {[path |-> ChatPath, exists |-> FALSE, data |-> <<>>]}

\* datetime.now() when the wall clock shows second t
Now(t) ==
    [year |-> 2026, month |-> 11, day |-> 2, hour |-> 23, minute |-> 59,
     second |-> t]

(***************************************************************************)
(* WhatsAppParser._extract_messages: the body of the loop for one line     *)
(***************************************************************************)
\* the lines content.split('\n') can hold: the pool's lines as the encodings
\* decode them
FileLines ==
    {ReadWith(encodings[i], l) : i \in 1..Len(encodings), l \in AllLines} \ {NONE}

\* the lines the loop can meet: these lines, stripped
TextLines == {Strip(d) : d \in FileLines}

\* _parse_message_line(line) for each of these lines and each reading t of
\* the clock (the calls of the loop, worked out once)
ParsedLine ==
    [line \in TextLines, t \in 0..MaxClock |-> _parse_message_line(line, Now(t))]

\* the pattern that matches each of these lines first
DialectOf == [line \in TextLines |-> MatchedPattern(line)]

\* an open message that a continuation line leaves as it is
NotContinued(current_message, line) == current_message

\* current_message['message'] += '\n' + line
Continued(current_message, line) ==
    [current_message EXCEPT !.message = @ \o <<"\n">> \o line]

\* a pass that takes a header of the sender of the open message for more
\* of that message
ClassifiedMerging(messages, current_message, line, message_data) ==
    IF message_data # NoneRec
    THEN (IF current_message # NoneRec
             /\ current_message.sender = message_data.sender
          THEN [messages |-> messages,
                current_message |-> Continued(current_message, line)]
          ELSE [messages |-> IF current_message # NoneRec
                             THEN Append(messages, current_message)
                             ELSE messages,
                current_message |-> message_data])
    ELSE [messages |-> messages,
          current_message |->
              IF current_message # NoneRec
              THEN Continued(current_message, line)
              ELSE current_message]

\* the pass for a line that is not blank, message_data being what
\* _parse_message_line returned for it
Classified(messages, current_message, line, message_data) ==
    IF message_data # NoneRec
    THEN [messages |-> IF current_message # NoneRec
                       THEN Append(messages, current_message)
                       ELSE messages,
          current_message |-> message_data]
    ELSE [messages |-> messages,
          current_message |->
              IF current_message # NoneRec
              THEN Continued(current_message, line)
              ELSE current_message]

\* a pass that takes a blank line for the end of the open message
SkippedFlushes(messages, current_message) ==
    [messages |-> IF current_message # NoneRec
                  THEN Append(messages, current_message)
                  ELSE messages,
     current_message |-> NoneRec,
     log |-> <<>>]

\* "if not line: continue"
Skipped(messages, current_message) ==
    [messages |-> messages, current_message |-> current_message, log |-> <<>>]

\* One pass of "for line in lines" over the state (messages,
\* current_message), with the clock at t; returns the new state and what
\* the pass logged.
ExtractStep(messages, current_message, raw_line, t) ==
    LET Pass(line) ==
            IF line = <<>>
            THEN Skipped(messages, current_message)
            ELSE [messages |->
                      Classified(messages, current_message, line,
                                 ParsedLine[line, t].data).messages,
                  current_message |->
                      Classified(messages, current_message, line,
                                 ParsedLine[line, t].data).current_message,
                  log |-> ParsedLine[line, t].log]
    IN  Pass(Strip(raw_line))

\* an end of loop that forgets the open message
LastForgotten(messages, current_message) == messages

\* after the loop: "don't forget the last message"
FlushLast(messages, current_message) ==
    IF current_message # NoneRec THEN Append(messages, current_message)
    ELSE messages

(***************************************************************************)
(* WhatsAppParser.parse_file as a state machine                            *)
(***************************************************************************)
VARIABLES
    pc,               \* where the call is: idle, read, extract, meta, done
    file,             \* the file of the call
    enc,              \* index in encodings of the attempt being made
    lines,            \* content.split('\n')
    idx,              \* index in lines of the next pass of the loop
    messages,         \* the list messages of _extract_messages
    current_message,  \* the open message, or None
    result,           \* what parse_file returned
    outcome,          \* how the call ended: "none" yet, "returned" or "raised"
    log,              \* the records written to the logger, oldest first
    clock,            \* the last reading of the wall clock
    previous,         \* what the call before this one returned, or None
    unit              \* a method or driver called on its own, or the other of
                      \* two calls of parse_file: a record with fn, or None

vars == <<pc, file, enc, lines, idx, messages, current_message, result,
          outcome, log, clock, previous, unit>>

Init ==
    /\ pc = "idle"
    /\ file = NoneRec
    /\ enc = 1
    /\ lines = <<>>
    /\ idx = 1
    /\ messages = <<>>
    /\ current_message = NoneRec
    /\ result = NoneRec
    /\ outcome = "none"
    /\ log = <<>>
    /\ clock = 0
    /\ previous = NoneRec
    /\ unit = NoneRec

\* parse_file(file_path) is called on one of the files: logger.info
Call ==
    /\ pc = "idle"
    /\ \E f \in Files : file' = f
    /\ log' = Append(log, LogParsing)
    /\ enc' = 1
    /\ pc' = "read"
    /\ UNCHANGED <<unit, previous, lines, idx, messages, current_message, result, outcome, clock>>

\* one pass of "for encoding in encodings" ending in UnicodeDecodeError
ReadDecodeError ==
    /\ pc = "read"
    /\ file.exists
    /\ enc <= Len(encodings)
    /\ ReadWith(encodings[enc], file.data) = NONE
    /\ enc' = enc + 1
    /\ UNCHANGED <<unit, previous, pc, file, lines, idx, messages, current_message, result,
                   outcome, log, clock>>

\* a list that still holds what the call before left in it
KeptMessages == messages

\* messages = []
NewMessages == <<>>

\* the pass that returns file.read(); _extract_messages starts on it
ReadDecoded ==
    /\ pc = "read"
    /\ file.exists
    /\ enc <= Len(encodings)
    /\ ReadWith(encodings[enc], file.data) # NONE
    /\ lines' = Split(ReadWith(encodings[enc], file.data))
    /\ idx' = 1
    /\ messages' = NewMessages
    /\ current_message' = NoneRec
    /\ pc' = "extract"
    /\ UNCHANGED <<unit, previous, file, enc, result, outcome, log, clock>>

\* a handler that lets the exception through
Reraise(e, log_so_far) ==
    [outcome |-> "raised", result |-> NoneRec, log |-> log_so_far]

\* "except Exception as e" of parse_file: what the call does with an
\* exception raised inside its try block
ExceptHandler(e, log_so_far) ==
    [outcome |-> "returned", result |-> EmptyDict,
     log |-> Append(log_so_far, LogError)]

\* open() raises OSError, or no encoding is left and ValueError is raised
ReadRaises ==
    /\ pc = "read"
    /\ ~file.exists \/ enc > Len(encodings)
    /\ LET e == IF ~file.exists THEN "OSError" ELSE "ValueError"
           h == ExceptHandler(e, log)
       IN  /\ outcome' = h.outcome
           /\ result' = h.result
           /\ log' = h.log
    /\ pc' = "done"
    /\ UNCHANGED <<unit, previous, file, enc, lines, idx, messages, current_message, clock>>

\* one pass of "for line in lines"; datetime.now(), if called, shows a
\* reading t not before the last one
ExtractLine ==
    /\ pc = "extract"
    /\ idx <= Len(lines)
    /\ \E t \in clock..MaxClock :
         \E step \in {ExtractStep(messages, current_message, lines[idx], t)} :
             /\ messages' = step.messages
             /\ current_message' = step.current_message
             /\ log' = log \o step.log
             /\ clock' = IF step.log # <<>> THEN t ELSE clock
    /\ idx' = idx + 1
    /\ UNCHANGED <<unit, previous, pc, file, enc, lines, result, outcome>>

\* the loop is over: the open message is flushed and _process_messages runs
ExtractEnd ==
    /\ pc = "extract"
    /\ idx > Len(lines)
    /\ messages' = _process_messages(FlushLast(messages, current_message))
    /\ pc' = "meta"
    /\ UNCHANGED <<unit, previous, file, enc, lines, idx, current_message, result, outcome,
                   log, clock>>

\* a return that goes on to the metadata although there is no message
ReturnEmptyWithMetadata ==
    /\ pc = "meta"
    /\ messages = <<>>
    /\ log' = Append(log, LogNoMessages)
    /\ result' = [chat_name     |-> Stem(file.path),
                  file_path     |-> file.path,
                  participants  |-> <<>>,
                  messages      |-> <<>>,
                  message_count |-> 0,
                  date_range    |-> EmptyDict]
    /\ outcome' = "returned"
    /\ pc' = "done"
    /\ UNCHANGED <<unit, previous, file, enc, lines, idx, messages, current_message, clock>>

\* "if not messages": logger.warning and return {}
ReturnEmpty ==
    /\ pc = "meta"
    /\ messages = <<>>
    /\ log' = Append(log, LogNoMessages)
    /\ result' = EmptyDict
    /\ outcome' = "returned"
    /\ pc' = "done"
    /\ UNCHANGED <<unit, previous, file, enc, lines, idx, messages, current_message, clock>>

\* the metadata is extracted and the dict returned
ReturnResult ==
    /\ pc = "meta"
    /\ messages # <<>>
    /\ \E chat_name \in _extract_chat_name(file.path, messages) :
         result' = [chat_name     |-> chat_name,
                    file_path     |-> file.path,
                    participants  |-> _extract_participants(messages),
                    messages      |-> messages,
                    message_count |-> Len(messages),
                    date_range    |-> _get_date_range(messages)]
    /\ outcome' = "returned"
    /\ pc' = "done"
    /\ UNCHANGED <<unit, previous, file, enc, lines, idx, messages, current_message, log, clock>>

Next ==
    \/ Call
    \/ ReadDecodeError
    \/ ReadDecoded
    \/ ReadRaises
    \/ ExtractLine
    \/ ExtractEnd
    \/ ReturnEmpty
    \/ ReturnResult

Spec == Init /\ [][Next]_vars

\* parse_file is called once more on the same parser object and the same
\* file, after the first call has returned
CallAgain ==
    /\ pc = "done"
    /\ previous = NoneRec
    /\ previous' = result
    /\ log' = Append(log, LogParsing)
    /\ enc' = 1
    /\ result' = NoneRec
    /\ outcome' = "none"
    /\ pc' = "read"
    /\ UNCHANGED <<unit, file, lines, idx, messages, current_message, clock>>

NextAgain ==
    \/ Call
    \/ ReadDecodeError
    \/ ReadDecoded
    \/ ReadRaises
    \/ ExtractLine
    \/ ExtractEnd
    \/ ReturnEmpty
    \/ ReturnResult
    \/ CallAgain

\* two calls of parse_file on one file
SpecAgain == Init /\ [][NextAgain]_vars

\* the program is run once more on the same file, after the first run has
\* ended: a new process, with its own hash seed for str, calls parse_file
RunAgain ==
    /\ pc = "done"
    /\ previous = NoneRec
    /\ previous' = result
    /\ log' = Append(log, LogParsing)
    /\ enc' = 1
    /\ result' = NoneRec
    /\ outcome' = "none"
    /\ pc' = "read"
    /\ UNCHANGED <<unit, file, lines, idx, messages, current_message, clock>>

NextRerun ==
    \/ Call
    \/ ReadDecodeError
    \/ ReadDecoded
    \/ ReadRaises
    \/ ExtractLine
    \/ ExtractEnd
    \/ ReturnEmpty
    \/ ReturnResult
    \/ RunAgain

\* two runs of the program on one file
SpecRerun == Init /\ [][NextRerun]_vars

\* parse_file is called on a file that starts with a byte-order mark, and
\* has returned: it is called on the same file without the mark
WithMark == file # NoneRec /\ file.exists /\ StartsAt(file.data, BomBytes, 1)

CallWithoutMark ==
    /\ pc = "done"
    /\ previous = NoneRec
    /\ WithMark
    /\ previous' = result
    /\ file' = [file EXCEPT !.data = SubSeq(@, Len(BomBytes) + 1, Len(@))]
    /\ log' = Append(log, LogParsing)
    /\ enc' = 1
    /\ result' = NoneRec
    /\ outcome' = "none"
    /\ pc' = "read"
    /\ UNCHANGED <<unit, lines, idx, messages, current_message, clock>>

NextMark ==
    \/ Call
    \/ ReadDecodeError
    \/ ReadDecoded
    \/ ReadRaises
    \/ ExtractLine
    \/ ExtractEnd
    \/ ReturnEmpty
    \/ ReturnResult
    \/ CallWithoutMark

\* a file with a byte-order mark, then the same file without it
SpecMark == Init /\ [][NextMark]_vars

(***************************************************************************)
(* Methods of the parser called on their own, with arguments drawn from    *)
(* small sets                                                              *)
(***************************************************************************)
\* date tokens: valid as month/day and as day/month, as one of them only,
\* as neither, year first, years of 2, 3 and 4 digits, 29 and 30 February
DateTokens ==
    {<<"1", "/", "5", "/", "2", "4">>,
     <<"1", "/", "5", "/", "2", "0", "2", "4">>,
     <<"1", "3", "/", "1", "/", "2", "4">>,
     <<"2", "5", "/", "1", "2", "/", "2", "0", "2", "3">>,
     <<"1", "2", "/", "2", "5", "/", "2", "3">>,
     <<"1", "3", "/", "1", "3", "/", "2", "4">>,
     <<"2", "/", "3", "0", "/", "2", "4">>,
     <<"2", "0", "2", "4", "/", "1", "/", "5">>,
     <<"1", "/", "5", "/", "2", "0", "2">>,
     <<"3", "1", "/", "4", "/", "2", "4">>,
     <<"2", "/", "2", "9", "/", "2", "4">>,
     <<"2", "/", "2", "9", "/", "2", "3">>}

\* time tokens: 24-hour and 12-hour, with and without seconds, noon and
\* midnight, hours and seconds out of range
TimeTokens ==
    {<<"1", "0", ":", "0", "0">>,
     <<"1", "0", ":", "0", "0", ":", "3", "0">>,
     <<"1", ":", "0", "2", ":", "0", "3", " ", "P", "M">>,
     <<"1", ":", "0", "2", " ", "P", "M">>,
     <<"1", "2", ":", "0", "0", " ", "A", "M">>,
     <<"1", "2", ":", "3", "0", ":", "0", "0", " ", "A", "M">>,
     <<"1", "3", ":", "0", "0", " ", "P", "M">>,
     <<"2", "5", ":", "0", "0">>,
     <<"9", ":", "5", "8">>,
     <<"1", "0", ":", "0", "0", ":", "6", "0">>}

\* _parse_timestamp(date_str, time_str) is about to be called
TimestampCalls ==
    {[fn |-> "_parse_timestamp",
      args |-> [date_str |-> d, time_str |-> t],
      ret |-> NoneRec] : d \in DateTokens, t \in TimeTokens}

\* the longest list of messages a method is called on
MaxMessages == 3

\* the messages the classifier makes of the lines of the files
LineMessages ==
    {ParsedLine[line, 0].data : line \in TextLines \ {<<>>}} \ {NoneRec}

\* _get_date_range(messages) is about to be called
DateRangeCalls ==
    {[fn |-> "_get_date_range",
      args |-> [messages |-> ms],
      ret |-> NoneRec] :
        ms \in UNION {[1..n -> LineMessages] : n \in 0..MaxMessages}}

\* the display names of the members of the chats a name is extracted for
ChatSenders ==
    {<<"A", "l">>, <<"B", "o", "b">>, <<"C", "y">>, <<"Y", "o", "u">>,
     <<"M", "e">>, <<"M", "e", "l", "a", "n", "i", "e">>}

\* the messages of these chats: one of each member, and a service notice
ChatMessages ==
    {[timestamp |-> Now(0), sender |-> p, message |-> <<"H", "i">>,
      is_system |-> FALSE] : p \in ChatSenders}
      \cup {[timestamp |-> Now(0), sender |-> <<"S", "y", "s", "t", "e", "m">>,
              message |-> <<"l", "e", "f", "t">>, is_system |-> TRUE]}

\* the paths of their files: an export named by WhatsApp, a file named in
\* the same way without the word WhatsApp, and one without a name after
\* the phrase
PathWhatsAppChatWithBob ==
    <<"c", "h", "a", "t", "s", "/", "W", "h", "a", "t", "s", "A", "p", "p",
      " ", "C", "h", "a", "t", " ", "w", "i", "t", "h", " ", "B", "o",
      "b", ".", "t", "x", "t">>

PathChatWithBob ==
    <<"c", "h", "a", "t", "s", "/", "C", "h", "a", "t", " ", "w", "i", "t",
      "h", " ", "B", "o", "b", ".", "t", "x", "t">>

PathWhatsAppChatWith ==
    <<"c", "h", "a", "t", "s", "/", "W", "h", "a", "t", "s", "A", "p", "p",
      " ", "C", "h", "a", "t", " ", "w", "i", "t", "h", ".", "t", "x",
      "t">>

ChatPaths ==
    {ChatPath, PathWhatsAppChatWithBob, PathChatWithBob, PathWhatsAppChatWith}

\* _extract_chat_name(file_path, messages) is about to be called
ChatNameCalls ==
    {[fn |-> "_extract_chat_name",
      args |-> [file_path |-> f, messages |-> ms],
      ret |-> NoneRec] :
        f \in ChatPaths,
        ms \in UNION {[1..n -> ChatMessages] : n \in 0..MaxMessages}}

(***************************************************************************)
(* CommunicationPatternAnalyzer.analyze_response_patterns: the loop that    *)
(* fills response_data.  The entries are kept in the order the loop adds    *)
(* them, each with its key "A -> B" as the pair <<A, B>>; response_data[key] *)
(* is the list of the times of the entries with that key.                   *)
(***************************************************************************)
\* [msg for msg in messages if not msg.get('is_system', False)]
RegularMessages(ms) == SelectSeq(ms, LAMBDA msg : ~msg.is_system)

\* response_data[key].append(response_time), for the i-th regular message
\* (counted from 1) as current_msg
ResponseEntry(regular_messages, i) ==
    [key |-> <<regular_messages[i - 1].sender, regular_messages[i].sender>>,
     response_time |-> regular_messages[i].response_time_seconds]

\* the passes of "for i in range(1, len(regular_messages))" that add an
\* entry
Responding(regular_messages) ==
    SelectSeq([k \in 1..(Len(regular_messages) - 1) |-> k + 1],
              LAMBDA i :
                  /\ regular_messages[i].response_time_seconds \in Int
                  /\ regular_messages[i].sender # regular_messages[i - 1].sender)

\* sum(1 for i in ... if response_time_seconds > 3600), per sender
StarterPasses(regular_messages) ==
    SelectSeq([k \in 1..(Len(regular_messages) - 1) |-> k + 1],
              LAMBDA i :
                  /\ regular_messages[i].response_time_seconds \in Int
                  /\ regular_messages[i].response_time_seconds > 3600)

analyze_response_patterns(ms) ==
    IF Len(RegularMessages(ms)) < 2 THEN EmptyDict
    ELSE [response_data |->
              [k \in 1..Len(Responding(RegularMessages(ms))) |->
                  ResponseEntry(RegularMessages(ms),
                                Responding(RegularMessages(ms))[k])],
          conversation_starters |->
              [k \in 1..Len(StarterPasses(RegularMessages(ms))) |->
                  RegularMessages(ms)[StarterPasses(RegularMessages(ms))[k]].sender],
          total_messages_analyzed |-> Len(RegularMessages(ms))]

\* the messages the analyzer is called on: those _process_messages makes
\* of up to MaxMessages of these lines
ResponseLines == {LineAl, LineCleft, LineJoined, LineBobLeft, LineBracketPm}

ResponseCalls ==
    {[fn |-> "analyze_response_patterns",
      args |-> [messages |-> _process_messages(ms)],
      ret |-> NoneRec] :
        ms \in UNION {[1..n -> {ParsedLine[line, 0].data : line \in ResponseLines}] :
                          n \in 0..MaxMessages}}

UnitInit ==
    /\ pc = "idle"
    /\ file = NoneRec
    /\ enc = 1
    /\ lines = <<>>
    /\ idx = 1
    /\ messages = <<>>
    /\ current_message = NoneRec
    /\ result = NoneRec
    /\ outcome = "none"
    /\ log = <<>>
    /\ clock = 0
    /\ previous = NoneRec
    /\ unit \in TimestampCalls \cup DateRangeCalls \cup ChatNameCalls
                 \cup ResponseCalls

\* the call of _parse_timestamp returns; datetime.now(), if called, shows a
\* reading t not before the last one
ParseTimestampReturns ==
    /\ unit # NoneRec
    /\ unit.fn = "_parse_timestamp"
    /\ unit.ret = NoneRec
    /\ \E t \in clock..MaxClock :
         \E r \in {_parse_timestamp(unit.args.date_str, unit.args.time_str, Now(t))} :
             /\ unit' = [unit EXCEPT !.ret = r.timestamp]
             /\ log' = log \o r.log
             /\ clock' = IF r.log # <<>> THEN t ELSE clock
    /\ UNCHANGED <<pc, file, enc, lines, idx, messages, current_message, result,
                   outcome, previous>>

\* the call of _get_date_range returns
GetDateRangeReturns ==
    /\ unit # NoneRec
    /\ unit.fn = "_get_date_range"
    /\ unit.ret = NoneRec
    /\ unit' = [unit EXCEPT !.ret = _get_date_range(unit.args.messages)]
    /\ UNCHANGED <<pc, file, enc, lines, idx, messages, current_message, result,
                   outcome, log, clock, previous>>

\* the call of _extract_chat_name returns one of the names it can return
ExtractChatNameReturns ==
    /\ unit # NoneRec
    /\ unit.fn = "_extract_chat_name"
    /\ unit.ret = NoneRec
    /\ \E chat_name \in _extract_chat_name(unit.args.file_path, unit.args.messages) :
           unit' = [unit EXCEPT !.ret = [chat_name |-> chat_name]]
    /\ UNCHANGED <<pc, file, enc, lines, idx, messages, current_message, result,
                   outcome, log, clock, previous>>

\* the call of analyze_response_patterns returns
AnalyzeResponsePatternsReturns ==
    /\ unit # NoneRec
    /\ unit.fn = "analyze_response_patterns"
    /\ unit.ret = NoneRec
    /\ unit' = [unit EXCEPT !.ret = analyze_response_patterns(unit.args.messages)]
    /\ UNCHANGED <<pc, file, enc, lines, idx, messages, current_message, result,
                   outcome, log, clock, previous>>

UnitNext ==
    \/ ParseTimestampReturns
    \/ GetDateRangeReturns
    \/ ExtractChatNameReturns
    \/ AnalyzeResponsePatternsReturns

\* single calls of the parser's methods
SpecUnit == UnitInit /\ [][UnitNext]_vars

(***************************************************************************)
(* process_all_chats.main, the multi-file driver.  The call is held in     *)
(* unit: the files found by the glob, the position in the loop, what has   *)
(* been printed, logged and written.  A chat file is given by what         *)
(* parse_file makes of it; an analysis or generation step either returns   *)
(* or raises.                                                              *)
(***************************************************************************)
MaxFiles == 3

\* what parse_file makes of a chat file: an error it logs and {}, {} for a
\* file without messages, or a dict with messages
ChatFileKinds == {"unreadable", "no_messages", "with_messages"}

\* parser.parse_file(str(chat_file)): the value returned
ParsedData(chat_file) ==
    IF chat_file = "with_messages" THEN [messages |-> <<chat_file>>] ELSE EmptyDict

\* parsed_data.get('messages', [])
MessagesOf(parsed_data) ==
    IF parsed_data = EmptyDict THEN <<>> ELSE parsed_data.messages

\* the artifacts of the file at chat_index
Report(chat_index) == [artifact |-> "report", chat_index |-> chat_index]

Card(chat_index) == [artifact |-> "card", chat_index |-> chat_index]

Image(chat_index) == [artifact |-> "image", chat_index |-> chat_index]

\* a variant that leaves the loop instead of going to the next file
Break(u) == [u EXCEPT !.at = "complete"]

\* "continue", and the end of the loop body: the next pass of
\* "for chat_index, chat_file in enumerate(chat_files, 1)", or the end of
\* the loop
Continue(u) ==
    IF u.chat_index < Len(u.args.chat_files)
    THEN [u EXCEPT !.chat_index = @ + 1, !.at = "parse"]
    ELSE [u EXCEPT !.at = "complete"]

\* generator.generate_report(...): the HTML report is written
ReportWritten(u) == [u EXCEPT !.written = @ \cup {Report(u.chat_index)}]

MainCalls ==
    {[fn |-> "main",
      args |-> [chat_files |-> fs],
      at |-> "glob", chat_index |-> 0, entered |-> <<>>,
      printed |-> <<>>, logged |-> <<>>, written |-> {},
      ret |-> NoneRec] :
        fs \in UNION {[1..n -> ChatFileKinds] : n \in 0..MaxFiles}}

MainInit ==
    /\ pc = "idle"
    /\ file = NoneRec
    /\ enc = 1
    /\ lines = <<>>
    /\ idx = 1
    /\ messages = <<>>
    /\ current_message = NoneRec
    /\ result = NoneRec
    /\ outcome = "none"
    /\ log = <<>>
    /\ clock = 0
    /\ previous = NoneRec
    /\ unit \in MainCalls

\* chat_files = list(RAW_DATA_DIR.glob("*.txt")); return if there is none
MainGlobs ==
    /\ unit # NoneRec
    /\ unit.fn = "main"
    /\ unit.at = "glob"
    /\ unit' = IF unit.args.chat_files = <<>>
               THEN [unit EXCEPT !.at = "returned", !.ret = NONE]
               ELSE [unit EXCEPT !.at = "parse", !.chat_index = 1]
    /\ UNCHANGED <<pc, file, enc, lines, idx, messages, current_message, result,
                   outcome, log, clock, previous>>

\* the start of a pass: parse the chat; without messages print the notice
\* and continue.  parse_file has logged its own error for a file it could
\* not read.
MainParses ==
    /\ unit # NoneRec
    /\ unit.fn = "main"
    /\ unit.at = "parse"
    /\ LET chat_file == unit.args.chat_files[unit.chat_index]
           entered == [unit EXCEPT !.entered = Append(@, unit.chat_index),
                                   !.logged =
                                       IF chat_file = "unreadable"
                                       THEN Append(@, [by |-> "parse_file",
                                                       chat_index |-> unit.chat_index])
                                       ELSE @]
       IN  unit' = IF MessagesOf(ParsedData(chat_file)) = <<>>
                   THEN Continue([entered EXCEPT
                            !.printed = Append(@, [notice |-> "No messages parsed",
                                                   chat_index |-> unit.chat_index])])
                   ELSE [entered EXCEPT !.at = "analyse"]
    /\ UNCHANGED <<pc, file, enc, lines, idx, messages, current_message, result,
                   outcome, log, clock, previous>>

\* the analysis of the messages, up to report_data: it returns or raises
MainAnalyses ==
    /\ unit # NoneRec
    /\ unit.fn = "main"
    /\ unit.at = "analyse"
    /\ \E raised \in BOOLEAN :
           unit' = [unit EXCEPT !.at = IF raised THEN "except" ELSE "report"]
    /\ UNCHANGED <<pc, file, enc, lines, idx, messages, current_message, result,
                   outcome, log, clock, previous>>

\* generator.generate_report(report_data, filename=f"report_{chat_name}.html")
MainGeneratesReport ==
    /\ unit # NoneRec
    /\ unit.fn = "main"
    /\ unit.at = "report"
    /\ \E raised \in BOOLEAN :
           unit' = IF raised THEN [unit EXCEPT !.at = "except"]
                   ELSE [ReportWritten(unit) EXCEPT !.at = "card"]
    /\ UNCHANGED <<pc, file, enc, lines, idx, messages, current_message, result,
                   outcome, log, clock, previous>>

\* generator.generate_compact_card(report_data, filename=f"card_{chat_name}.html")
MainGeneratesCard ==
    /\ unit # NoneRec
    /\ unit.fn = "main"
    /\ unit.at = "card"
    /\ \E raised \in BOOLEAN :
           unit' = IF raised THEN [unit EXCEPT !.at = "except"]
                   ELSE [unit EXCEPT !.written = @ \cup {Card(unit.chat_index)},
                                     !.at = "image"]
    /\ UNCHANGED <<pc, file, enc, lines, idx, messages, current_message, result,
                   outcome, log, clock, previous>>

\* image_generator.generate_summary_image(report_data, filename=f"image_{chat_name}.png"),
\* the last statement of the pass
MainGeneratesImage ==
    /\ unit # NoneRec
    /\ unit.fn = "main"
    /\ unit.at = "image"
    /\ \E raised \in BOOLEAN :
           unit' = IF raised THEN [unit EXCEPT !.at = "except"]
                   ELSE Continue([unit EXCEPT
                            !.written = @ \cup {Image(unit.chat_index)}])
    /\ UNCHANGED <<pc, file, enc, lines, idx, messages, current_message, result,
                   outcome, log, clock, previous>>

\* except Exception as e: logger.error(...); print(...); continue
MainExcept ==
    /\ unit # NoneRec
    /\ unit.fn = "main"
    /\ unit.at = "except"
    /\ unit' = Continue([unit EXCEPT
                   !.logged = Append(@, [by |-> "main",
                                         chat_index |-> unit.chat_index])])
    /\ UNCHANGED <<pc, file, enc, lines, idx, messages, current_message, result,
                   outcome, log, clock, previous>>

\* after the loop: the closing prints, and main returns
MainCompletes ==
    /\ unit # NoneRec
    /\ unit.fn = "main"
    /\ unit.at = "complete"
    /\ unit' = [unit EXCEPT !.at = "returned", !.ret = NONE]
    /\ UNCHANGED <<pc, file, enc, lines, idx, messages, current_message, result,
                   outcome, log, clock, previous>>

MainNext ==
    \/ MainGlobs
    \/ MainParses
    \/ MainAnalyses
    \/ MainGeneratesReport
    \/ MainGeneratesCard
    \/ MainGeneratesImage
    \/ MainExcept
    \/ MainCompletes

\* one run of the multi-file driver
SpecMain == MainInit /\ [][MainNext]_vars

(***************************************************************************)
(* ChatDataProcessor.process_directory.  What is saved is given by the     *)
(* Python type of each value: a leaf [type |-> t], or a dict or a list     *)
(* with its items.                                                         *)
(***************************************************************************)
Leaf(t) == [type |-> t]

\* a message as _parse_message_line and _process_messages make it
MessageTypes ==
    [type |-> "dict",
     items |-> [timestamp |-> Leaf("datetime"),
                sender |-> Leaf("str"),
                message |-> Leaf("str"),
                is_system |-> Leaf("bool"),
                message_id |-> Leaf("int"),
                is_media |-> Leaf("bool"),
                emojis |-> [type |-> "list", items |-> <<>>],
                emoji_count |-> Leaf("int"),
                message_length |-> Leaf("int"),
                word_count |-> Leaf("int"),
                hour |-> Leaf("int"),
                day_of_week |-> Leaf("int"),
                date |-> Leaf("date"),
                response_time_seconds |-> Leaf("NoneType")]]

\* the dict parse_file returns for a file with messages
ChatDataTypes ==
    [type |-> "dict",
     items |-> [chat_name |-> Leaf("str"),
                file_path |-> Leaf("str"),
                participants |-> [type |-> "list", items |-> <<Leaf("str")>>],
                messages |-> [type |-> "list", items |-> <<MessageTypes>>],
                message_count |-> Leaf("int"),
                date_range |-> [type |-> "dict",
                                items |-> [start_date |-> Leaf("datetime"),
                                           end_date |-> Leaf("datetime")]]]]

\* self.parser.parse_file(str(chat_file))
ChatData(chat_file) ==
    IF chat_file = "with_messages" THEN ChatDataTypes ELSE EmptyDict

RECURSIVE _make_serializable(_)
_make_serializable(data) ==
    IF data.type = "datetime" THEN Leaf("str")
    ELSE IF data.type \in {"dict", "list"}
         THEN [data EXCEPT !.items = [k \in DOMAIN @ |-> _make_serializable(@[k])]]
         ELSE data

\* json.dump writes the value; it raises TypeError at a value of a type the
\* encoder does not know
RECURSIVE JsonEncodes(_)
JsonEncodes(data) ==
    IF data.type \in {"dict", "list"}
    THEN \A k \in DOMAIN data.items : JsonEncodes(data.items[k])
    ELSE data.type \in {"str", "int", "float", "bool", "NoneType"}

\* the next pass of "for chat_file in chat_files", or the end of the loop
NextChatFile(u) ==
    IF u.index < Len(u.args.chat_files)
    THEN [u EXCEPT !.index = @ + 1, !.at = "parse"]
    ELSE [u EXCEPT !.at = "summary"]

\* _create_summary(processed_chats)
_create_summary(processed_chats) ==
    IF processed_chats = <<>> THEN EmptyDict
    ELSE [total_chats |-> Len(processed_chats), chats |-> processed_chats]

DirectoryCalls ==
    {[fn |-> "process_directory",
      args |-> [chat_files |-> fs],
      at |-> "glob", index |-> 0, entered |-> <<>>,
      processed_chats |-> <<>>, written |-> {},
      ret |-> NoneRec] :
        fs \in UNION {[1..n -> ChatFileKinds] : n \in 0..MaxFiles}}

DirectoryInit ==
    /\ pc = "idle"
    /\ file = NoneRec
    /\ enc = 1
    /\ lines = <<>>
    /\ idx = 1
    /\ messages = <<>>
    /\ current_message = NoneRec
    /\ result = NoneRec
    /\ outcome = "none"
    /\ log = <<>>
    /\ clock = 0
    /\ previous = NoneRec
    /\ unit \in DirectoryCalls

\* chat_files = list(input_path.glob('*.txt')); processed_chats = []
DirectoryGlobs ==
    /\ unit # NoneRec
    /\ unit.fn = "process_directory"
    /\ unit.at = "glob"
    /\ unit' = NextChatFile(unit)
    /\ UNCHANGED <<pc, file, enc, lines, idx, messages, current_message, result,
                   outcome, log, clock, previous>>

\* chat_data = self.parser.parse_file(str(chat_file)); if chat_data: ...
DirectoryParses ==
    /\ unit # NoneRec
    /\ unit.fn = "process_directory"
    /\ unit.at = "parse"
    /\ LET entered == [unit EXCEPT !.entered = Append(@, unit.index)]
       IN  unit' = IF ChatData(unit.args.chat_files[unit.index]) = EmptyDict
                   THEN NextChatFile(entered)
                   ELSE [entered EXCEPT !.at = "save"]
    /\ UNCHANGED <<pc, file, enc, lines, idx, messages, current_message, result,
                   outcome, log, clock, previous>>

\* self._save_chat_data(chat_data, chat_output_file), which opens the file
\* and dumps; processed_chats.append(chat_data).  No handler is around the
\* call: a TypeError of json.dump ends process_directory, and leaves the
\* file opened for writing with the part written before the value.
DirectorySaves ==
    /\ unit # NoneRec
    /\ unit.fn = "process_directory"
    /\ unit.at = "save"
    /\ LET chat_data == ChatData(unit.args.chat_files[unit.index])
       IN  unit' =
               IF JsonEncodes(_make_serializable(chat_data))
               THEN NextChatFile([unit EXCEPT
                        !.written = @ \cup {[output |-> "processed", index |-> unit.index,
                                             whole |-> TRUE]},
                        !.processed_chats = Append(@, unit.index)])
               ELSE [unit EXCEPT
                        !.written = @ \cup {[output |-> "processed", index |-> unit.index,
                                             whole |-> FALSE]},
                        !.at = "raised",
                        !.ret = [raised |-> "TypeError"]]
    /\ UNCHANGED <<pc, file, enc, lines, idx, messages, current_message, result,
                   outcome, log, clock, previous>>

\* summary = self._create_summary(processed_chats);
\* self._save_summary(summary, summary_file); return summary
DirectorySummarises ==
    /\ unit # NoneRec
    /\ unit.fn = "process_directory"
    /\ unit.at = "summary"
    /\ unit' = [unit EXCEPT
                   !.written = @ \cup {[output |-> "summary",
                                        summary |-> _create_summary(unit.processed_chats)]},
                   !.at = "returned",
                   !.ret = _create_summary(unit.processed_chats)]
    /\ UNCHANGED <<pc, file, enc, lines, idx, messages, current_message, result,
                   outcome, log, clock, previous>>

DirectoryNext ==
    \/ DirectoryGlobs
    \/ DirectoryParses
    \/ DirectorySaves
    \/ DirectorySummarises

\* one call of process_directory
SpecDirectory == DirectoryInit /\ [][DirectoryNext]_vars

(***************************************************************************)
(* Two calls of parse_file on different files, their steps interleaved.    *)
(* The locals of the first call are the variables; those of the other call *)
(* are held in unit.  The logger and the wall clock are the same for both. *)
(***************************************************************************)
\* the chats of the two files
PairChats ==
    {<<LineAl, LineText>>, <<LineAl, LineCleft>>, <<LineCleft, LineBadDate>>,
     <<LineLatin>>}

\* the files at a path: one for each chat, and one that cannot be opened
FilesAt(path) ==
    {[path |-> path, exists |-> TRUE, data |-> JoinLines(ls)] : ls \in PairChats}
      \cup {[path |-> path, exists |-> FALSE, data |-> <<>>]}

\* the other call before it starts
OtherIdle ==
    [fn |-> "parse_file", pc |-> "idle", file |-> NoneRec, enc |-> 1,
     lines |-> <<>>, idx |-> 1, messages |-> <<>>, current_message |-> NoneRec,
     result |-> NoneRec, outcome |-> "none"]

PairInit ==
    /\ pc = "idle"
    /\ file = NoneRec
    /\ enc = 1
    /\ lines = <<>>
    /\ idx = 1
    /\ messages = <<>>
    /\ current_message = NoneRec
    /\ result = NoneRec
    /\ outcome = "none"
    /\ log = <<>>
    /\ clock = 0
    /\ previous = NoneRec
    /\ unit = OtherIdle

\* a list taken over from the other call
SharedList(other_list) == other_list

\* messages = []: a new list, whatever list another call holds
FreshList(other_list) == <<>>

\* the first call starts
PairCall ==
    /\ pc = "idle"
    /\ \E f \in FilesAt(ChatPath) : file' = f
    /\ log' = Append(log, LogParsing)
    /\ enc' = 1
    /\ pc' = "read"
    /\ UNCHANGED <<unit, previous, lines, idx, messages, current_message, result, outcome, clock>>

\* the other call starts: logger.info
OtherCall ==
    /\ unit # NoneRec
    /\ unit.fn = "parse_file"
    /\ unit.pc = "idle"
    /\ \E f \in FilesAt(PathChatWithBob) :
           unit' = [unit EXCEPT !.file = f, !.enc = 1, !.pc = "read"]
    /\ log' = Append(log, LogParsing)
    /\ UNCHANGED <<pc, file, enc, lines, idx, messages, current_message, result,
                   outcome, clock, previous>>

\* the other call: a pass of "for encoding in encodings" ending in
\* UnicodeDecodeError
OtherReadDecodeError ==
    /\ unit # NoneRec
    /\ unit.fn = "parse_file"
    /\ unit.pc = "read"
    /\ unit.file.exists
    /\ unit.enc <= Len(encodings)
    /\ ReadWith(encodings[unit.enc], unit.file.data) = NONE
    /\ unit' = [unit EXCEPT !.enc = @ + 1]
    /\ UNCHANGED <<pc, file, enc, lines, idx, messages, current_message, result,
                   outcome, log, clock, previous>>

\* the other call: the pass that returns file.read(); _extract_messages
\* starts on it
OtherReadDecoded ==
    /\ unit # NoneRec
    /\ unit.fn = "parse_file"
    /\ unit.pc = "read"
    /\ unit.file.exists
    /\ unit.enc <= Len(encodings)
    /\ ReadWith(encodings[unit.enc], unit.file.data) # NONE
    /\ unit' = [unit EXCEPT
                   !.lines = Split(ReadWith(encodings[unit.enc], unit.file.data)),
                   !.idx = 1,
                   !.messages = FreshList(messages),
                   !.current_message = NoneRec,
                   !.pc = "extract"]
    /\ UNCHANGED <<pc, file, enc, lines, idx, messages, current_message, result,
                   outcome, log, clock, previous>>

\* the other call: open() raises OSError, or no encoding is left
OtherReadRaises ==
    /\ unit # NoneRec
    /\ unit.fn = "parse_file"
    /\ unit.pc = "read"
    /\ ~unit.file.exists \/ unit.enc > Len(encodings)
    /\ LET e == IF ~unit.file.exists THEN "OSError" ELSE "ValueError"
           h == ExceptHandler(e, log)
       IN  /\ unit' = [unit EXCEPT !.outcome = h.outcome, !.result = h.result,
                                   !.pc = "done"]
           /\ log' = h.log
    /\ UNCHANGED <<pc, file, enc, lines, idx, messages, current_message, result,
                   outcome, clock, previous>>

\* the other call: one pass of "for line in lines"
OtherExtractLine ==
    /\ unit # NoneRec
    /\ unit.fn = "parse_file"
    /\ unit.pc = "extract"
    /\ unit.idx <= Len(unit.lines)
    /\ \E t \in clock..MaxClock :
         \E step \in {ExtractStep(unit.messages, unit.current_message,
                                  unit.lines[unit.idx], t)} :
             /\ unit' = [unit EXCEPT !.messages = step.messages,
                                     !.current_message = step.current_message,
                                     !.idx = @ + 1]
             /\ log' = log \o step.log
             /\ clock' = IF step.log # <<>> THEN t ELSE clock
    /\ UNCHANGED <<pc, file, enc, lines, idx, messages, current_message, result,
                   outcome, previous>>

\* the other call: the loop is over
OtherExtractEnd ==
    /\ unit # NoneRec
    /\ unit.fn = "parse_file"
    /\ unit.pc = "extract"
    /\ unit.idx > Len(unit.lines)
    /\ unit' = [unit EXCEPT
                   !.messages = _process_messages(FlushLast(unit.messages,
                                                            unit.current_message)),
                   !.pc = "meta"]
    /\ UNCHANGED <<pc, file, enc, lines, idx, messages, current_message, result,
                   outcome, log, clock, previous>>

\* the other call: "if not messages": logger.warning and return {}
OtherReturnEmpty ==
    /\ unit # NoneRec
    /\ unit.fn = "parse_file"
    /\ unit.pc = "meta"
    /\ unit.messages = <<>>
    /\ log' = Append(log, LogNoMessages)
    /\ unit' = [unit EXCEPT !.result = EmptyDict, !.outcome = "returned",
                            !.pc = "done"]
    /\ UNCHANGED <<pc, file, enc, lines, idx, messages, current_message, result,
                   outcome, clock, previous>>

\* the other call: the metadata is extracted and the dict returned
OtherReturnResult ==
    /\ unit # NoneRec
    /\ unit.fn = "parse_file"
    /\ unit.pc = "meta"
    /\ unit.messages # <<>>
    /\ \E chat_name \in _extract_chat_name(unit.file.path, unit.messages) :
         unit' = [unit EXCEPT
                     !.result = [chat_name     |-> chat_name,
                                 file_path     |-> unit.file.path,
                                 participants  |-> _extract_participants(unit.messages),
                                 messages      |-> unit.messages,
                                 message_count |-> Len(unit.messages),
                                 date_range    |-> _get_date_range(unit.messages)],
                     !.outcome = "returned",
                     !.pc = "done"]
    /\ UNCHANGED <<pc, file, enc, lines, idx, messages, current_message, result,
                   outcome, log, clock, previous>>

PairNext ==
    \/ PairCall
    \/ ReadDecodeError
    \/ ReadDecoded
    \/ ReadRaises
    \/ ExtractLine
    \/ ExtractEnd
    \/ ReturnEmpty
    \/ ReturnResult
    \/ OtherCall
    \/ OtherReadDecodeError
    \/ OtherReadDecoded
    \/ OtherReadRaises
    \/ OtherExtractLine
    \/ OtherExtractEnd
    \/ OtherReturnEmpty
    \/ OtherReturnResult

\* two calls of parse_file, in any interleaving of their steps
SpecPair == PairInit /\ [][PairNext]_vars

(***************************************************************************)
(* Properties of the parser.  They read the file's lines as the loop meets *)
(* them and compare what the parser holds with what the classifier makes   *)
(* of each line on its own.                                                *)
(***************************************************************************)
\* each line of a file on its own: its text as the loop reads it, and the
\* message the classifier makes of it (None for a blank line and for a line
\* that matches no pattern), the clock at 0
LineAlone ==
    [raw_line \in FileLines |->
        [text |-> Strip(raw_line),
         data |-> IF Strip(raw_line) = <<>> THEN NoneRec
                  ELSE ParsedLine[Strip(raw_line), 0].data]]

\* a line the loop skips
Blank(raw_line) == LineAlone[raw_line].text = <<>>

\* a line the classifier recognises as a header
IsHeader(raw_line) == LineAlone[raw_line].data # NoneRec

\* a continuation line: not blank and not a header
IsContinuation(raw_line) == ~Blank(raw_line) /\ ~IsHeader(raw_line)

\* the message the classifier makes of a header line
HeaderData(raw_line) == LineAlone[raw_line].data

\* a header whose timestamp is the reading of the clock: no format parsed
\* its date and time
BadTimestamp(raw_line) ==
    IsHeader(raw_line) /\ HeaderData(raw_line).timestamp = Now(0)

\* a header matched by one of the patterns with a sender
HasSender(raw_line) ==
    IsHeader(raw_line) /\ DialectOf[LineAlone[raw_line].text] # "system_message"

\* the places of the header lines in ls, and the place of the i-th of them
Headers(ls) == {k \in 1..Len(ls) : IsHeader(ls[k])}

NthHeader(ls, i) ==
    CHOOSE k \in Headers(ls) : Cardinality({j \in Headers(ls) : j <= k}) = i

\* where the lines of the i-th message end: before the next header
EndOfMessage(ls, i) ==
    IF i < Cardinality(Headers(ls)) THEN NthHeader(ls, i + 1) - 1 ELSE Len(ls)

\* text holds one of the system/service phrases
HasPhrase(text) ==
    \E k \in 1..Len(system_keywords) : Contains(text, system_keywords[k])

IsPrefix(p, q) == Len(p) <= Len(q) /\ SubSeq(q, 1, Len(p)) = p

\* body followed by the lines a..b of ls, each after a line break: as they
\* are in the file (Raw), or trimmed and without the blank ones (Trimmed)
RECURSIVE Raw(_, _, _, _)
Raw(body, ls, a, b) ==
    IF a > b THEN body ELSE Raw(body \o <<"\n">> \o ls[a], ls, a + 1, b)

RECURSIVE Trimmed(_, _, _, _)
Trimmed(body, ls, a, b) ==
    IF a > b THEN body
    ELSE IF Blank(ls[a]) THEN Trimmed(body, ls, a + 1, b)
    ELSE Trimmed(body \o <<"\n">> \o LineAlone[ls[a]].text, ls, a + 1, b)

\* the lines the loop has passed, and the messages made of them so far, the
\* open one last
Seen == IF pc = "extract" THEN SubSeq(lines, 1, idx - 1) ELSE lines

Stream ==
    IF pc = "extract" /\ current_message # NoneRec
    THEN Append(messages, current_message)
    ELSE messages

\* the loop has passed lines (it is running or over)
Extracting == pc \in {"extract", "meta", "done"}

\* the loop has just passed a header line, which is now the open message
AtHeader == pc = "extract" /\ idx > 1 /\ IsHeader(lines[idx - 1])

\* the call returned a result with messages
Parsed == pc = "done" /\ result # EmptyDict

\* msg carries what the classifier made of the header line
FromHeader(msg, raw_line) ==
    /\ msg.sender = HeaderData(raw_line).sender
    /\ msg.is_system = HeaderData(raw_line).is_system
    /\ IsPrefix(HeaderData(raw_line).message, msg.message)
    /\ BadTimestamp(raw_line) \/ msg.timestamp = HeaderData(raw_line).timestamp

\* the number of warnings about a timestamp in the log
TimestampWarnings == Cardinality({k \in 1..Len(log) : log[k] = LogTimestamp})

\* C1: at every point of the loop and after it, the messages made so far
\* (the flushed ones, then the open one) are as many as the header lines
\* passed, and the i-th message is the one made of the i-th header line:
\* every header flushes the open message before it opens its own, and the
\* message open after the last line is flushed too.
C1_OneMessagePerHeader ==
    Extracting =>
        /\ Len(Stream) = Cardinality(Headers(Seen))
        /\ \A i \in 1..Len(Stream) :
               FromHeader(Stream[i], Seen[NthHeader(Seen, i)])
        /\ pc = "extract" => (current_message = NoneRec <=> Headers(Seen) = {})

\* a file of a header, a continuation and a header has given two messages
C1_Witness ==
    /\ pc = "done"
    /\ Len(lines) = 3
    /\ IsHeader(lines[1]) /\ IsContinuation(lines[2]) /\ IsHeader(lines[3])
    /\ Len(messages) = 2

\* C2: in every result with messages, the message at position i (counted
\* from 0, the i+1-st of the sequence) has message_id i.
C2_SequenceIds ==
    Parsed =>
        \A k \in 1..Len(result.messages) : result.messages[k].message_id = k - 1

\* a result of three messages
C2_Witness == Parsed /\ Len(result.messages) = 3

\* C3: a header line followed by k non-blank lines that match no pattern
\* gives one message whose body is the header's body followed by those k
\* lines in order, each after one line break, with the text of each line
\* as it is in the file.
C3_ContinuationFidelity ==
    (pc \in {"meta", "done"} /\ Len(messages) = Cardinality(Headers(lines))) =>
        \A i \in 1..Len(messages) :
            (\A j \in (NthHeader(lines, i) + 1)..EndOfMessage(lines, i) :
                 IsContinuation(lines[j]))
            => messages[i].message =
                   Raw(HeaderData(lines[NthHeader(lines, i)]).message, lines,
                       NthHeader(lines, i) + 1, EndOfMessage(lines, i))

\* C4 as stated: wherever a continuation line occurs, once the loop has
\* passed it a message is open whose body ends with a line break and the
\* text of the line (as the loop reads it, trimmed).
C4_AppendedAnywhere ==
    (pc = "extract" /\ idx > 1 /\ IsContinuation(lines[idx - 1])) =>
        /\ current_message # NoneRec
        /\ \E body \in {current_message.message} :
               \E tail \in {<<"\n">> \o LineAlone[lines[idx - 1]].text} :
                   /\ Len(tail) <= Len(body)
                   /\ SubSeq(body, Len(body) - Len(tail) + 1, Len(body)) = tail

\* C4 amended: the body of the i-th message is the body of the i-th header
\* followed by the trimmed text of every continuation line between that
\* header and the next, each after one line break; the continuation lines
\* before the first header are in no message.
C4_AppendedToOpenMessage ==
    (pc \in {"meta", "done"} /\ Len(messages) = Cardinality(Headers(lines))) =>
        \A i \in 1..Len(messages) :
            messages[i].message =
                Trimmed(HeaderData(lines[NthHeader(lines, i)]).message, lines,
                        NthHeader(lines, i) + 1, EndOfMessage(lines, i))

\* a continuation line before the first header and one after it: one
\* message
C4_Witness ==
    /\ pc = "done"
    /\ Len(lines) = 3
    /\ IsContinuation(lines[1]) /\ IsHeader(lines[2]) /\ IsContinuation(lines[3])
    /\ Len(messages) = 1

\* C5: every message the parser holds or returns that has is_system true
\* has the sender "System".
C5_SystemSender ==
    /\ \A i \in 1..Len(messages) :
           messages[i].is_system => messages[i].sender = System
    /\ current_message # NoneRec =>
           (current_message.is_system => current_message.sender = System)
    /\ Parsed =>
           \A i \in 1..Len(result.messages) :
               result.messages[i].is_system => result.messages[i].sender = System

\* a result with a system message made of a line with a sender
C5_Witness ==
    /\ Parsed
    /\ Len(lines) = 1
    /\ HasSender(lines[1])
    /\ result.messages[1].is_system

\* C6 as stated: a header line that holds a system/service phrase anywhere
\* gives a message with sender "System" and is_system true.
C6_PhraseInLine ==
    (AtHeader /\ HasPhrase(lines[idx - 1])) =>
        current_message.sender = System /\ current_message.is_system

\* C6 amended: a header line whose extracted body holds a system/service
\* phrase, or which only the pattern without sender matches, gives a
\* message with sender "System" and is_system true.
C6_PhraseInBody ==
    (AtHeader /\ (HasPhrase(current_message.message) \/ ~HasSender(lines[idx - 1]))) =>
        current_message.sender = System /\ current_message.is_system

\* a line with a sender and a phrase in its body has become a system
\* message
C6_Witness ==
    /\ AtHeader
    /\ HasSender(lines[idx - 1])
    /\ HasPhrase(current_message.message)
    /\ current_message.sender = System

\* C7: a line matched by a pattern with a sender gives a system message
\* (is_system true, sender replaced by "System") exactly when its extracted
\* body holds a system/service phrase, whichever of these patterns matched;
\* otherwise is_system is false and the sender is the one written in the
\* line before the colon; and the
\* chat of four lines gives 3 messages, the second with the body "Hello!",
\* a line break, "This is a continuation", the third with sender "System",
\* although the pattern with a sender matched its line.
C7_ReclassifiedByBody ==
    /\ (AtHeader /\ HasSender(lines[idx - 1])) =>
           /\ current_message.is_system <=> HasPhrase(current_message.message)
           /\ current_message.is_system => current_message.sender = System
           /\ ~current_message.is_system =>
                  Contains(LineAlone[lines[idx - 1]].text,
                           current_message.sender \o <<":">>)
    /\ (pc = "done" /\ file.data = JoinLines(ScenarioLines)) =>
           /\ Parsed
           /\ Len(result.messages) = 3
           /\ result.messages[2].message =
                  <<"H", "e", "l", "l", "o", "!", "\n">>
                      \o SubSeq(ScenarioLines[3], 1, Len(ScenarioLines[3]))
           /\ result.messages[3].sender = System
           /\ result.messages[3].is_system
           /\ DialectOf[ScenarioLines[4]] = "us_format"

\* the chat of four lines has been parsed
C7_Witness ==
    pc = "done" /\ file.data = JoinLines(ScenarioLines) /\ Parsed

\* C8: a header line whose date and time no format parses does not stop
\* the call and does not disturb the other lines: it gives a message whose
\* timestamp is a reading of the clock, every other header line gives the
\* message the classifier makes of it on its own, at its place, and the
\* log holds exactly one warning for each such line.
C8_BadTimestampDegrades ==
    Extracting =>
        /\ outcome # "raised"
        /\ TimestampWarnings =
               Cardinality({k \in Headers(Seen) : BadTimestamp(Seen[k])})
        /\ Len(Stream) = Cardinality(Headers(Seen))
        /\ \A i \in 1..Len(Stream) :
               /\ Stream[i].sender = HeaderData(Seen[NthHeader(Seen, i)]).sender
               /\ IF BadTimestamp(Seen[NthHeader(Seen, i)])
                  THEN Stream[i].timestamp \in {Now(t) : t \in 0..MaxClock}
                  ELSE Stream[i].timestamp =
                           HeaderData(Seen[NthHeader(Seen, i)]).timestamp

\* a header with a bad timestamp between two good ones: three messages
C8_Witness ==
    /\ Parsed
    /\ Len(lines) = 3
    /\ BadTimestamp(lines[2])
    /\ IsHeader(lines[1]) /\ ~BadTimestamp(lines[1])
    /\ IsHeader(lines[3]) /\ ~BadTimestamp(lines[3])
    /\ Len(result.messages) = 3

C10_EmptyResult ==
    (pc = "done" /\ file.exists /\ Headers(lines) = {}) =>
        /\ outcome = "returned"
        /\ result = EmptyDict
        /\ log[Len(log)] = LogNoMessages
        /\ \A k \in 1..Len(log) : log[k] # LogError

\* a file of three lines without a header, one of them not blank
C10_Witness ==
    /\ pc = "done"
    /\ file.exists
    /\ Len(lines) = 3
    /\ Headers(lines) = {}
    /\ \E k \in 1..3 : IsContinuation(lines[k])
    /\ result = EmptyDict

\* the file holds a byte that is not ASCII
HasHighByte == \E i \in 1..Len(file.data) : file.data[i] \in HighBytes

\* the call has read the file
HasRead == pc \in {"extract", "meta", "done"} /\ file.exists

\* C11: the encodings are tried in the order UTF-8, UTF-8 with byte-order
\* mark, Latin-1, Windows-1252; once the file is read, every encoding before
\* the one in use failed to decode it and the lines are those of the text
\* the one in use gives; a file with a byte that is invalid in UTF-8 is read
\* by a later encoding and, when it has a header line, gives a result with
\* messages.
C11_FirstEncodingThatDecodes ==
    /\ encodings = <<"utf-8", "utf-8-sig", "latin-1", "cp1252">>
    /\ HasRead =>
           /\ enc <= Len(encodings)
           /\ \A k \in 1..(enc - 1) : ReadWith(encodings[k], file.data) = NONE
           /\ ReadWith(encodings[enc], file.data) # NONE
           /\ lines = Split(ReadWith(encodings[enc], file.data))
    /\ (pc = "done" /\ file.exists /\ ~Utf8Valid(file.data)) =>
           /\ enc <= Len(encodings)
           /\ enc > 1
           /\ outcome = "returned"
           /\ Headers(lines) # {} => Parsed

\* a file with the byte 0xE9 and a header line has been parsed after UTF-8
\* and UTF-8 with byte-order mark failed
C11_Witness ==
    /\ Parsed
    /\ HasHighByte
    /\ enc = 3
    /\ Len(result.messages) >= 1

\* the senders of the messages of ms that are not system messages
SendersOf(ms) == {ms[k].sender : k \in {j \in 1..Len(ms) : ~ms[j].is_system}}

\* C12: the participants of a result are the senders of its messages that
\* are not system messages, each once, in ascending order, and "System" is
\* none of them.
C12_Participants ==
    Parsed =>
        /\ {result.participants[i] : i \in 1..Len(result.participants)}
               = SendersOf(result.messages)
        /\ \A i \in 1..Len(result.participants) :
               \A j \in (i + 1)..Len(result.participants) :
                   StrLess(result.participants[i], result.participants[j])
        /\ \A i \in 1..Len(result.participants) :
               result.participants[i] # System

\* C12 without the last part: the participants are the senders of the
\* messages that are not system messages, each once, in ascending order.
C12_SortedSenders ==
    Parsed =>
        /\ {result.participants[i] : i \in 1..Len(result.participants)}
               = SendersOf(result.messages)
        /\ \A i \in 1..Len(result.participants) :
               \A j \in (i + 1)..Len(result.participants) :
                   StrLess(result.participants[i], result.participants[j])

\* the seconds from the start of the year 2023 to the datetime dt
SecondsSince2023(dt) ==
    (ToOrdinal(dt) - ToOrdinal([year |-> 2023, month |-> 1, day |-> 1])) * 86400
        + SecondOfDay(dt)

\* C13: in every result, response_time_seconds of the first message is
\* None, and that of every later message is its timestamp minus the
\* timestamp of the message right before it, in seconds, whoever sent that
\* message and whether or not it is a system message; a message earlier
\* than the one before it has a negative value (9:58 after 10:00 is -120).
C13_ResponseTime ==
    /\ Parsed =>
           /\ result.messages[1].response_time_seconds = NONE
           /\ \A k \in 2..Len(result.messages) :
                  result.messages[k].response_time_seconds =
                      SecondsSince2023(result.messages[k].timestamp)
                          - SecondsSince2023(result.messages[k - 1].timestamp)
    /\ (Parsed /\ lines = <<LineAl, LineBobLeft>>) =>
           result.messages[2].response_time_seconds = -120

\* a result whose second message is a system message, earlier than the
\* first, which another member sent
C13_Witness ==
    /\ Parsed
    /\ Len(result.messages) >= 2
    /\ result.messages[2].is_system
    /\ ~result.messages[1].is_system
    /\ result.messages[2].response_time_seconds = -120

\* the second call on the file has returned
ParsedAgain == pc = "done" /\ previous # NoneRec

\* what the sequences of messages a and b must share whatever the clock
\* showed: count, order, senders, bodies, system flags, ids
SameButTimestamps(a, b) ==
    /\ Len(a) = Len(b)
    /\ \A k \in 1..Len(a) :
           /\ a[k].sender = b[k].sender
           /\ a[k].message = b[k].message
           /\ a[k].is_system = b[k].is_system
           /\ a[k].message_id = b[k].message_id
           /\ a[k].is_media = b[k].is_media
           /\ a[k].word_count = b[k].word_count

\* C14: when parse_file has been called twice on a file, the second call
\* returns the empty dict exactly when the first did; otherwise the two
\* sequences of messages have the same count, order, senders, bodies and
\* system flags, and, when no timestamp of the file fell back to the wall
\* clock in either call, they are equal in every field.
C14_SameFileSameMessages ==
    ParsedAgain =>
        /\ previous = EmptyDict <=> result = EmptyDict
        /\ result # EmptyDict =>
               /\ SameButTimestamps(previous.messages, result.messages)
               /\ TimestampWarnings = 0 =>
                      result.messages = previous.messages

\* a file of three messages, none with a timestamp of the wall clock, has
\* been parsed twice
C14_Witness ==
    /\ ParsedAgain
    /\ result # EmptyDict
    /\ Len(result.messages) = 3
    /\ TimestampWarnings = 0
    /\ previous.messages = result.messages

\* the lines of ls that are not blank, in order
NonBlank(ls) == SelectSeq(ls, LAMBDA raw_line : ~Blank(raw_line))

\* the next line of the loop is blank
AtBlank == pc = "extract" /\ idx <= Len(lines) /\ Blank(lines[idx])

\* C15: a pass of the loop over a blank line (empty or white space only)
\* changes neither the open message nor the list of messages nor the log;
\* and the messages of a file are those of its lines that are not blank:
\* as many as the header lines among them, the i-th made of the i-th such
\* header and of the lines after it up to the next header.
C15_BlankLinesSkipped ==
    /\ [][AtBlank => UNCHANGED <<messages, current_message, log>>]_vars
    /\ [](Extracting =>
            /\ Len(Stream) = Cardinality(Headers(NonBlank(Seen)))
            /\ \A i \in 1..Len(Stream) :
                   /\ FromHeader(Stream[i],
                                 NonBlank(Seen)[NthHeader(NonBlank(Seen), i)])
                   /\ Stream[i].message =
                          Trimmed(HeaderData(NonBlank(Seen)[NthHeader(NonBlank(Seen), i)]).message,
                                  NonBlank(Seen),
                                  NthHeader(NonBlank(Seen), i) + 1,
                                  EndOfMessage(NonBlank(Seen), i)))

\* a header, a blank line and a continuation have given one message of two
\* lines of text
C15_Witness ==
    /\ pc = "done"
    /\ Len(lines) = 3
    /\ IsHeader(lines[1]) /\ Blank(lines[2]) /\ IsContinuation(lines[3])
    /\ Len(messages) = 1
    /\ messages[1].message =
           HeaderData(lines[1]).message \o <<"\n">> \o LineAlone[lines[3]].text

\* the place of the pattern called name in self.patterns
PatternIndex(name) == CHOOSE i \in 1..Len(patterns) : patterns[i].name = name

\* the patterns with a bracketed timestamp, and the others with a sender
Bracketed == {PatternIndex("bracketed_ampm_format"), PatternIndex("bracketed_format")}
Unbracketed == {PatternIndex("us_format"), PatternIndex("eu_format")}

\* for each line the loop can meet, the places of the patterns that match it
MatchTable ==
    [line \in TextLines |->
        {i \in 1..Len(patterns) : ReMatch(patterns[i].re, line) # NoneRec}]

\* for each such line and pattern, the message the branch of that pattern
\* alone makes of the line (None if the pattern does not match), the clock
\* at 0
ByPattern ==
    [line \in TextLines, i \in 1..Len(patterns) |->
        IF ReMatch(patterns[i].re, line) = NoneRec THEN NoneRec
        ELSE MessageOfMatch(patterns[i].name,
                            ReMatch(patterns[i].re, line).caps, Now(0)).data]

\* the text of the line the loop has just passed
LastText == LineAlone[lines[idx - 1]].text

\* the open message is the one the pattern at place i alone makes of the
\* line just passed
DecidedBy(i) ==
    /\ ByPattern[LastText, i] # NoneRec
    /\ current_message.sender = ByPattern[LastText, i].sender
    /\ current_message.message = ByPattern[LastText, i].message
    /\ current_message.is_system = ByPattern[LastText, i].is_system

\* a line is a header exactly when some pattern matches it, and the first
\* pattern in the order of self.patterns that matches a line alone decides
\* its message
FirstMatchDecides ==
    /\ \A line \in TextLines :
           line # <<>> => (MatchTable[line] = {} <=> ParsedLine[line, 0].data = NoneRec)
    /\ AtHeader => DecidedBy(Least(MatchTable[LastText]))
    /\ \A line \in TextLines :
           DialectOf[line] = "system_message"
               <=> MatchTable[line] = {PatternIndex("system_message")}

TimestampReturned ==
    unit # NoneRec /\ unit.fn = "_parse_timestamp" /\ unit.ret # NoneRec

\* the pieces of s between the separators sep
Fields(s, sep) ==
    LET at == {i \in 1..Len(s) : s[i] = sep}
        Cut(k) == IF k = 0 THEN 0
                  ELSE IF k > Cardinality(at) THEN Len(s) + 1
                  ELSE CHOOSE i \in at : Cardinality({j \in at : j <= i}) = k
    IN  [k \in 1..(Cardinality(at) + 1) |-> SubSeq(s, Cut(k - 1) + 1, Cut(k) - 1)]

\* the k-th number of a date token
DateNumber(date_str, k) == ToInt(Fields(date_str, "/")[k])

\* what strptime makes of "date time" under the d-th date layout and the
\* t-th time layout
UnderLayout(date_str, time_str, d, t) ==
    Strptime(date_str \o <<" ">> \o time_str,
             date_formats[d] \o <<White(1)>> \o time_formats[t])

\* the combinations (date layout, time layout) that parse the two tokens
Parsing(date_str, time_str) ==
    {x \in (1..Len(date_formats)) \X (1..Len(time_formats)) :
        UnderLayout(date_str, time_str, x[1], x[2]) # NoneRec}

\* the first of them, date layouts outermost
FirstParsing(date_str, time_str) ==
    CHOOSE x \in Parsing(date_str, time_str) :
        \A y \in Parsing(date_str, time_str) :
            x[1] < y[1] \/ (x[1] = y[1] /\ x[2] <= y[2])

\* the date layouts that read month/day/year, and day/month/year
MonthFirst == {1, 2}
DayFirst == {3, 4}

\* the returned datetime reads the date token as month/day/year
ReadAsMonthDay(date_str, dt) ==
    dt.month = DateNumber(date_str, 1) /\ dt.day = DateNumber(date_str, 2)

\* the returned datetime reads the date token as day/month/year
ReadAsDayMonth(date_str, dt) ==
    dt.day = DateNumber(date_str, 1) /\ dt.month = DateNumber(date_str, 2)

\* C17: _parse_timestamp returns what the first combination of a date
\* layout and a time layout that parses "date time" gives, the combinations
\* taken with the date layouts (month/day/2-digit year, month/day/4-digit
\* year, day/month/2-digit year, day/month/4-digit year, year/month/day)
\* outermost and the time layouts (24h with seconds, 24h, 12h with seconds
\* and AM/PM, 12h with AM/PM) innermost, and logs nothing; it falls back to
\* the clock with one warning only when no combination parses.  A date
\* that a month/day layout parses is read as month/day; day/month is used
\* only when no month/day layout parses.
C17_FirstLayoutThatParses ==
    TimestampReturned =>
        \E d \in {unit.args.date_str} : \E t \in {unit.args.time_str} :
            \E parsing \in {Parsing(d, t)} :
                /\ parsing = {} =>
                       /\ unit.ret \in {Now(c) : c \in 0..MaxClock}
                       /\ log = <<LogTimestamp>>
                /\ parsing # {} =>
                       /\ unit.ret = UnderLayout(d, t, FirstParsing(d, t)[1],
                                                 FirstParsing(d, t)[2])
                       /\ log = <<>>
                       /\ (\E x \in parsing : x[1] \in MonthFirst)
                              => ReadAsMonthDay(d, unit.ret)
                       /\ (DateNumber(d, 1) # DateNumber(d, 2)
                              /\ Len(Fields(d, "/")[1]) <= 2
                              /\ ReadAsDayMonth(d, unit.ret))
                              => \A x \in parsing : x[1] \notin MonthFirst
                       /\ FirstParsing(d, t)[2] \in {1, 2}
                              => unit.ret.hour = ToInt(Fields(t, ":")[1])

\* "1/5/24", valid as 5 January and as 1 May, with a 12-hour time, has been
\* read as 5 January 2024, 13:02:03
C17_Witness ==
    /\ TimestampReturned
    /\ DateNumber(unit.args.date_str, 1) = 1
    /\ DateNumber(unit.args.date_str, 2) = 5
    /\ unit.ret = [year |-> 2024, month |-> 1, day |-> 5,
                   hour |-> 13, minute |-> 2, second |-> 3]

\* the first place from i on where text has no blank (past the end if none)
AfterSpaces(text, i) ==
    Least({j \in i..(Len(text) + 1) : j > Len(text) \/ text[j] # " "})

\* where the time token of a header text starts: after the first run of
\* blanks; and where it ends: with the last of its digits and colons
TimeStart(text) ==
    AfterSpaces(text, Least({i \in 1..Len(text) : text[i] = " "}))

TimeEnd(text) ==
    Least({j \in TimeStart(text)..(Len(text) + 1) :
              j > Len(text) \/ text[j] \notin Digit \cup {":"}}) - 1

\* the hour the time token of a header text shows
ClockHour(text) ==
    ToInt(SubSeq(text, TimeStart(text),
                 Least({j \in TimeStart(text)..Len(text) : text[j] = ":"}) - 1))

\* the AM/PM marker that follows the time token of a header text, if any
Marker(text) ==
    IF /\ AfterSpaces(text, TimeEnd(text) + 1) < Len(text)
       /\ SubSeq(text, AfterSpaces(text, TimeEnd(text) + 1),
                 AfterSpaces(text, TimeEnd(text) + 1) + 1)
              \in {<<"A", "M">>, <<"P", "M">>}
    THEN SubSeq(text, AfterSpaces(text, TimeEnd(text) + 1),
                AfterSpaces(text, TimeEnd(text) + 1) + 1)
    ELSE NONE

\* the hour of the day that a clock hour with a marker stands for
HourOfDay(clock_hour, marker) ==
    IF marker = <<"P", "M">> THEN (IF clock_hour = 12 THEN 12 ELSE clock_hour + 12)
    ELSE IF marker = <<"A", "M">> THEN (IF clock_hour = 12 THEN 0 ELSE clock_hour)
    ELSE clock_hour

\* the header text carries a marker with a clock hour of 1..12
WithMarker(text) == Marker(text) # NONE /\ ClockHour(text) \in 1..12

\* the hour of msg reflects the marker of its header text
MarkerCounts(msg, text) ==
    WithMarker(text) => msg.timestamp.hour = HourOfDay(ClockHour(text), Marker(text))

\* the hour of msg is the clock hour of its header text, the marker left out
MarkerDropped(msg, text) ==
    WithMarker(text) => msg.timestamp.hour = ClockHour(text)

\* C18: the hour of every message whose header line carries an AM/PM
\* marker reflects the marker, in the bracketed and in the unbracketed
\* dialects: PM with clock hour 1..11 gives hour 13..23, 12 AM gives hour 0.
C18_MarkerInHour ==
    (Extracting /\ Len(Stream) = Cardinality(Headers(Seen))) =>
        \A i \in 1..Len(Stream) :
            MarkerCounts(Stream[i], LineAlone[Seen[NthHeader(Seen, i)]].text)

\* what the code does: the marker counts in the hour of a message whose
\* header is bracketed; in the unbracketed dialects the marker is matched
\* and left out of the time token, so the hour is the clock hour as written
C18_MarkerInBracketedOnly ==
    (Extracting /\ Len(Stream) = Cardinality(Headers(Seen))) =>
        \A i \in 1..Len(Stream) :
            IF DialectOf[LineAlone[Seen[NthHeader(Seen, i)]].text] = "bracketed_ampm_format"
            THEN MarkerCounts(Stream[i], LineAlone[Seen[NthHeader(Seen, i)]].text)
            ELSE MarkerDropped(Stream[i], LineAlone[Seen[NthHeader(Seen, i)]].text)

\* a bracketed header with the marker PM has given a message in the
\* afternoon, and an unbracketed one a message at night
C18_BracketedReached ==
    /\ pc = "done" /\ Len(lines) = 1 /\ Len(messages) = 1
    /\ Marker(LineAlone[lines[1]].text) = <<"P", "M">>
    /\ DialectOf[LineAlone[lines[1]].text] = "bracketed_ampm_format"
    /\ messages[1].timestamp.hour = 13

C18_UnbracketedReached ==
    /\ pc = "done" /\ Len(lines) = 2 /\ Len(messages) = 2
    /\ Marker(LineAlone[lines[1]].text) = <<"P", "M">>
    /\ Marker(LineAlone[lines[2]].text) = <<"A", "M">>
    /\ messages[1].timestamp.hour = 1
    /\ messages[2].timestamp.hour = 12

\* a call of _get_date_range has returned
DateRangeReturned ==
    unit # NoneRec /\ unit.fn = "_get_date_range" /\ unit.ret # NoneRec

\* timestamp a is not after timestamp b
NotAfter(a, b) == ~Earlier(b, a)

\* the span [start_date, end_date] is that of the timestamps of ms: both
\* ends are timestamps of ms and every timestamp of ms lies between them
SpanOf(span, ms) ==
    /\ \E i \in 1..Len(ms) : ms[i].timestamp = span.start_date
    /\ \E i \in 1..Len(ms) : ms[i].timestamp = span.end_date
    /\ \A i \in 1..Len(ms) :
           /\ NotAfter(span.start_date, ms[i].timestamp)
           /\ NotAfter(ms[i].timestamp, span.end_date)
    /\ NotAfter(span.start_date, span.end_date)

\* C19: _get_date_range returns the empty dict for no messages; for a
\* list of messages it returns start_date, the least, and end_date, the
\* greatest of the timestamps of all the messages, those of system messages
\* included, so that start_date <= end_date and every timestamp lies
\* between them.
C19_DateRange ==
    DateRangeReturned =>
        IF unit.args.messages = <<>>
        THEN unit.ret = EmptyDict
        ELSE SpanOf(unit.ret, unit.args.messages)

\* the same for the result of parse_file: its date_range spans the
\* timestamps of its messages
C19_ResultDateRange ==
    Parsed => SpanOf(result.date_range, result.messages)

\* a call has returned for three messages in neither ascending nor
\* descending order, the earliest of them a system message
C19_Witness ==
    /\ DateRangeReturned
    /\ Len(unit.args.messages) = 3
    /\ Earlier(unit.args.messages[2].timestamp, unit.args.messages[1].timestamp)
    /\ Earlier(unit.args.messages[2].timestamp, unit.args.messages[3].timestamp)
    /\ Earlier(unit.args.messages[1].timestamp, unit.args.messages[3].timestamp)
    /\ unit.args.messages[2].is_system
    /\ unit.ret.start_date = unit.args.messages[2].timestamp
    /\ unit.ret.end_date = unit.args.messages[3].timestamp

\* a call of _extract_chat_name has returned
ChatNameReturned ==
    unit # NoneRec /\ unit.fn = "_extract_chat_name" /\ unit.ret # NoneRec

\* the name a participant has when it stands for the user: it holds one of
\* You, you, +1, Me
SelfIdentifier(p) ==
    \/ Contains(p, <<"Y", "o", "u">>)
    \/ Contains(p, <<"y", "o", "u">>)
    \/ Contains(p, <<"+", "1">>)
    \/ Contains(p, <<"M", "e">>)

WhatsAppChatWith ==
    <<"W", "h", "a", "t", "s", "A", "p", "p", " ", "C", "h", "a", "t", " ",
      "w", "i", "t", "h">>

ChatWith == <<"C", "h", "a", "t", " ", "w", "i", "t", "h", " ">>

\* "Group Chat (n participants)"
GroupChat(n) ==
    <<"G", "r", "o", "u", "p", " ", "C", "h", "a", "t", " ", "(">> \o Str(n)
        \o <<" ", "p", "a", "r", "t", "i", "c", "i", "p", "a", "n", "t", "s", ")">>

\* the file name has the pattern "Chat with X"; and the X of the pattern
HasChatWithX(filename) ==
    \E p \in 1..Len(filename) :
        StartsAt(filename, ChatWith, p) /\ p + Len(ChatWith) <= Len(filename)

NameAfterChatWith(filename) ==
    Strip(SubSeq(filename,
                 Least({p \in 1..Len(filename) : StartsAt(filename, ChatWith, p)})
                     + Len(ChatWith),
                 Len(filename)))

\* the name the priority of the claim gives, or the names if it leaves a
\* choice: name is one of them
NamedByChatWithX(name, filename, participants) ==
    IF HasChatWithX(filename) THEN name = NameAfterChatWith(filename)
    ELSE IF Cardinality(participants) = 2
            /\ \E p \in participants : ~SelfIdentifier(p)
    THEN name \in participants /\ ~SelfIdentifier(name)
    ELSE IF Cardinality(participants) > 2
    THEN name = GroupChat(Cardinality(participants))
    ELSE name = filename

\* the name the code gives: name is the one, or one of those, it can return
NamedByCode(name, filename, participants) ==
    IF Contains(filename, WhatsAppChatWith)
    THEN name = Strip(Replace(filename, WhatsAppChatWith \o <<" ">>, <<>>))
    ELSE IF Cardinality(participants) > 2
    THEN name = GroupChat(Cardinality(participants))
    ELSE IF Cardinality(participants) = 2
            /\ \E p \in participants : ~SelfIdentifier(p)
    THEN name \in participants /\ ~SelfIdentifier(name)
    ELSE name = filename

\* C20 as stated: the chat name is the X of the file name when the file name
\* has the pattern "Chat with X"; otherwise, with exactly two non-system
\* participants, the one that is not a self-identifier; otherwise
\* "Group Chat (N participants)"; otherwise the file name.
C20_ChatWithX ==
    ChatNameReturned =>
        NamedByChatWithX(unit.ret.chat_name, Stem(unit.args.file_path),
                         NonSystemSenders(unit.args.messages))

\* C20: when the file name holds "WhatsApp Chat with", the chat name is the
\* file name without every "WhatsApp Chat with " and without white space at
\* its ends (the X of "WhatsApp Chat with X", the file name itself when no
\* blank follows the phrase), whatever the messages are.  Otherwise, with N
\* the number of distinct senders of non-system messages: for N > 2 it is
\* "Group Chat (N participants)"; for N = 2 it is a participant whose name
\* holds none of You, you, +1, Me, if there is one, either of them if there
\* are two; in every other case (N < 2, or two participants that both hold
\* such a keyword) it is the file name without directory and suffix.
C20_ChatName ==
    ChatNameReturned =>
        /\ NamedByCode(unit.ret.chat_name, Stem(unit.args.file_path),
                       NonSystemSenders(unit.args.messages))
        /\ unit.args.file_path = PathWhatsAppChatWithBob
               => unit.ret.chat_name = <<"B", "o", "b">>
        /\ unit.args.file_path = PathWhatsAppChatWith
               => unit.ret.chat_name = WhatsAppChatWith
        /\ unit.args.file_path \in {ChatPath, PathChatWithBob}
               => unit.ret.chat_name \in
                      {Stem(unit.args.file_path)}
                          \cup {GroupChat(n) : n \in 3..Cardinality(ChatSenders)}
                          \cup {p \in ChatSenders : ~SelfIdentifier(p)}

\* a chat of You and Al, in a file without the phrase, is named Al
C20_Witness ==
    /\ ChatNameReturned
    /\ unit.args.file_path = ChatPath
    /\ NonSystemSenders(unit.args.messages) = {<<"Y", "o", "u">>, <<"A", "l">>}
    /\ unit.ret.chat_name = <<"A", "l">>

\* the other cases: a chat of Al and Bob has been named Al, and it has been
\* named Bob; a chat of You and Melanie has the name of its file; three
\* members make a group chat; the name in the file name wins over the
\* members
C20_EitherOfTwo ==
    /\ ChatNameReturned
    /\ unit.args.file_path = ChatPath
    /\ Len(unit.args.messages) = 2
    /\ unit.args.messages[1].sender = <<"A", "l">>
    /\ NonSystemSenders(unit.args.messages) = {<<"A", "l">>, <<"B", "o", "b">>}
    /\ unit.ret.chat_name = <<"B", "o", "b">>

C20_FirstOfTwo ==
    /\ ChatNameReturned
    /\ unit.args.file_path = ChatPath
    /\ Len(unit.args.messages) = 2
    /\ unit.args.messages[1].sender = <<"A", "l">>
    /\ NonSystemSenders(unit.args.messages) = {<<"A", "l">>, <<"B", "o", "b">>}
    /\ unit.ret.chat_name = <<"A", "l">>

C20_BothSelf ==
    /\ ChatNameReturned
    /\ NonSystemSenders(unit.args.messages)
           = {<<"Y", "o", "u">>, <<"M", "e", "l", "a", "n", "i", "e">>}
    /\ unit.ret.chat_name = <<"c", "h", "a", "t">>

C20_Group ==
    /\ ChatNameReturned
    /\ Cardinality(NonSystemSenders(unit.args.messages)) = 3
    /\ unit.ret.chat_name = GroupChat(3)

C20_FileNameWins ==
    /\ ChatNameReturned
    /\ Cardinality(NonSystemSenders(unit.args.messages)) = 3
    /\ unit.ret.chat_name = <<"B", "o", "b">>

\* the loop is about to pass a header line
BeforeHeader == pc = "extract" /\ idx <= Len(lines) /\ IsHeader(lines[idx])

\* sender, body and system flag of a message
Core(msg) ==
    [sender |-> msg.sender, message |-> msg.message, is_system |-> msg.is_system]

\* the step leaves the flushed messages as they are, in sender, body and
\* system flag
FlushedKept ==
    /\ Len(messages') >= Len(messages)
    /\ \A i \in 1..Len(messages) : Core(messages'[i]) = Core(messages[i])

\* the step flushes the open message as it is and opens a new one
OpensNew ==
    /\ current_message' # NoneRec
    /\ current_message # NoneRec =>
           /\ Len(messages') = Len(messages) + 1
           /\ messages'[Len(messages')] = current_message
    /\ current_message = NoneRec => messages' = messages
    /\ Core(current_message') = Core(HeaderData(lines[idx]))

\* C24: the loop never goes back: every step over a header line flushes the
\* open message as it stands and opens a new message made of that line
\* alone, also when the open message has the same sender; and no step of
\* the call, the enrichment included, changes sender, body or system flag
\* of a message that has been flushed, nor removes one; the messages of the
\* result are the flushed ones.
C24_SinglePass ==
    /\ [][/\ Extracting => FlushedKept
          /\ BeforeHeader => OpensNew]_vars
    /\ [](Parsed => \A i \in 1..Len(messages) :
                        Core(result.messages[i]) = Core(messages[i]))

\* two headers of the same sender, one after the other, have given two
\* messages
C24_Witness ==
    /\ pc = "done"
    /\ Len(lines) = 2
    /\ IsHeader(lines[1]) /\ IsHeader(lines[2])
    /\ Len(messages) = 2
    /\ messages[1].sender = messages[2].sender
    /\ ~messages[1].is_system

\* the number of tokens of s between white space, counted from the left:
\* in_word tells whether the character before s belongs to a token
RECURSIVE Tokens(_, _)
Tokens(s, in_word) ==
    IF s = <<>> THEN 0
    ELSE IF Head(s) \in Whitespace THEN Tokens(Tail(s), FALSE)
    ELSE (IF in_word THEN 0 ELSE 1) + Tokens(Tail(s), TRUE)

\* body holds one of the media placeholders
HoldsPlaceholder(body) ==
    \E k \in 1..Len(media_patterns) :
        \E p \in 1..Len(body) :
            /\ p + Len(media_patterns[k]) - 1 <= Len(body)
            /\ \A j \in 1..Len(media_patterns[k]) :
                   body[p + j - 1] = media_patterns[k][j]

\* the enrichment of msg is that of its body
EnrichedFromBody(msg) ==
    /\ msg.message_length = Len(msg.message)
    /\ msg.word_count = Tokens(msg.message, FALSE)
    /\ msg.is_media <=> HoldsPlaceholder(msg.message)

\* what the extraction made of a message
Extracted(msg) ==
    [timestamp |-> msg.timestamp, sender |-> msg.sender,
     message |-> msg.message, is_system |-> msg.is_system]

\* C25: in every result, message_length of each message is the length of
\* its body, word_count the number of its tokens between white space (0
\* for the empty body) and is_media true exactly when the body holds a
\* media placeholder, the body being the final one, continuation lines
\* included; and the enrichment, the step that ends the loop, leaves
\* timestamp, sender, body and system flag of every message as the loop
\* made them.
C25_Enrichment ==
    /\ [](pc \in {"meta", "done"} =>
              \A i \in 1..Len(messages) : EnrichedFromBody(messages[i]))
    /\ [](Parsed =>
              \A i \in 1..Len(result.messages) :
                  /\ EnrichedFromBody(result.messages[i])
                  /\ result.messages[i].message =
                         Trimmed(HeaderData(lines[NthHeader(lines, i)]).message,
                                 lines, NthHeader(lines, i) + 1,
                                 EndOfMessage(lines, i)))
    /\ [][(pc = "extract" /\ pc' = "meta") =>
              /\ Len(messages') = Len(Stream)
              /\ \A i \in 1..Len(Stream) : Extracted(messages'[i]) = Stream[i]]_vars

\* a header with an empty body, followed by a line with a placeholder, has
\* given a media message of two words
C25_Witness ==
    /\ Parsed
    /\ Len(lines) = 2
    /\ Len(result.messages) = 1
    /\ IsHeader(lines[1])
    /\ HeaderData(lines[1]).message = <<>>
    /\ result.messages[1].is_media
    /\ result.messages[1].word_count = 2
    /\ result.messages[1].message_length = 16

\* a header with an empty body alone has given a message without words
C25_EmptyBody ==
    /\ Parsed
    /\ result.messages[1].message = <<>>
    /\ result.messages[1].word_count = 0
    /\ result.messages[1].message_length = 0
    /\ ~result.messages[1].is_media

\* the encoding the call is trying or has read the file with
Trying == encodings[enc]

\* C27: Latin-1, the third encoding, decodes every sequence of bytes, so
\* for a file that can be opened the loop over the encodings never goes
\* past it: Windows-1252 is never tried, the error "could not decode with
\* any encoding" is never raised or logged, and the file is read with one
\* of the first three encodings.
C27_Latin1AlwaysDecodes ==
    /\ enc \in 1..3
    /\ Trying # "cp1252"
    /\ (file # NoneRec /\ file.exists) =>
           /\ DecodeLatin1(file.data) # NONE
           /\ \A k \in 1..Len(log) : log[k] # LogError
           /\ outcome # "raised"
           /\ pc = "done" => HasRead /\ Trying \in {"utf-8", "utf-8-sig", "latin-1"}

\* a file with a byte that is not valid UTF-8 is being read with Latin-1,
\* the first two encodings having failed
C27_Witness ==
    /\ pc = "extract"
    /\ HasHighByte
    /\ Trying = "latin-1"
    /\ ReadWith("utf-8", file.data) = NONE
    /\ ReadWith("utf-8-sig", file.data) = NONE

\* the file without its mark has been parsed after the file with it
ParsedWithoutMark == pc = "done" /\ previous # NoneRec /\ ~WithMark

\* C28: a file that starts with a byte-order mark gives the same messages
\* as the same file without the mark: either both calls return the empty
\* dict or the two sequences agree in count, order, senders, bodies and
\* system flags; and when the first line of the file is a header, the first
\* message of the file with the mark is made of it.
C28_MarkIgnored ==
    ParsedWithoutMark =>
        /\ previous = EmptyDict <=> result = EmptyDict
        /\ result # EmptyDict =>
               SameButTimestamps(previous.messages, result.messages)

\* what the code does: the first encoding, UTF-8, decodes the mark as the
\* character U+FEFF, which strip() does not remove and no pattern matches:
\* the first line of the file with the mark is no header, so the messages
\* of that file are those of the file without its first line
C28_FirstLineLost ==
    ParsedWithoutMark =>
        /\ IsHeader(lines[1])
        /\ previous = EmptyDict <=> Cardinality(Headers(lines)) = 1
        /\ previous # EmptyDict =>
               /\ Len(previous.messages) = Len(result.messages) - 1
               /\ \A k \in 1..Len(previous.messages) :
                      /\ previous.messages[k].sender = result.messages[k + 1].sender
                      /\ previous.messages[k].is_system = result.messages[k + 1].is_system

\* the file with the mark gave one message, the file without it two
C28_Witness ==
    /\ ParsedWithoutMark
    /\ previous # EmptyDict /\ result # EmptyDict
    /\ Len(previous.messages) = 1
    /\ Len(result.messages) = 2

\* both runs have returned a result with messages
BothParsed ==
    /\ pc = "done"
    /\ previous # NoneRec /\ previous # EmptyDict
    /\ result # NoneRec /\ result # EmptyDict

\* the participants of the result that hold none of the keywords for the
\* user
OtherPeople(r) == {p \in SendersOf(r.messages) : ~SelfIdentifier(p)}

\* C29: two runs over the same file give the same chat name, whatever the
\* participants are.
C29_SameChatName ==
    BothParsed => previous.chat_name = result.chat_name

\* what the code does: the names of the two runs can differ only for a
\* file of exactly two participants of which neither is a self-identifier,
\* and then each is one of the two; in every other case they are equal
C29_SameUnlessTwoOthers ==
    BothParsed =>
        \/ previous.chat_name = result.chat_name
        \/ /\ Cardinality(SendersOf(result.messages)) = 2
           /\ Cardinality(OtherPeople(result)) = 2
           /\ previous.chat_name \in OtherPeople(result)
           /\ result.chat_name \in OtherPeople(result)

\* the two runs on a chat of two members gave two names
C29_Witness ==
    /\ BothParsed
    /\ Len(result.messages) = 2
    /\ previous.messages = result.messages
    /\ previous.chat_name = result.messages[1].sender
    /\ result.chat_name = result.messages[2].sender
    /\ previous.chat_name # result.chat_name

\* a call of analyze_response_patterns has returned
ResponsesReturned ==
    unit # NoneRec /\ unit.fn = "analyze_response_patterns" /\ unit.ret # NoneRec

\* the messages of ms that are not system messages, in order
NonSystem(ms) == SelectSeq(ms, LAMBDA msg : ~msg.is_system)

\* the places in ms (from the second on) of the messages that answer a
\* message of another sender
Answers(ms) ==
    {i \in 2..Len(ms) : ms[i].sender # ms[i - 1].sender}

NthAnswer(ms, k) ==
    CHOOSE i \in Answers(ms) : Cardinality({j \in Answers(ms) : j <= i}) = k

\* C30: every response time recorded under "A -> B" is the time between
\* the message of A and the following message of B that form the pair:
\* the entries are those of the consecutive non-system messages with
\* different senders, in order, and the time of each is the timestamp of
\* the second message minus that of the first, whatever lies between the
\* two in the list the function is given.
C30_TimeOfThePair ==
    (ResponsesReturned /\ unit.ret # EmptyDict) =>
        /\ Len(unit.ret.response_data) = Cardinality(Answers(NonSystem(unit.args.messages)))
        /\ \A k \in 1..Len(unit.ret.response_data) :
               /\ unit.ret.response_data[k].key =
                      <<NonSystem(unit.args.messages)[NthAnswer(NonSystem(unit.args.messages), k) - 1].sender,
                        NonSystem(unit.args.messages)[NthAnswer(NonSystem(unit.args.messages), k)].sender>>
               /\ unit.ret.response_data[k].response_time =
                      SecondsSince2023(NonSystem(unit.args.messages)[NthAnswer(NonSystem(unit.args.messages), k)].timestamp)
                      - SecondsSince2023(NonSystem(unit.args.messages)[NthAnswer(NonSystem(unit.args.messages), k) - 1].timestamp)

\* what the code does: the pairs are those of the claim, but the time of
\* each is response_time_seconds of its second message, which the parser
\* computed against the message before it in the whole list, system
\* messages included
C30_TimeSincePreviousOfAll ==
    (ResponsesReturned /\ unit.ret # EmptyDict) =>
        /\ Len(unit.ret.response_data) = Cardinality(Answers(NonSystem(unit.args.messages)))
        /\ \A k \in 1..Len(unit.ret.response_data) :
               \E i \in 2..Len(unit.args.messages) :
                   /\ unit.args.messages[i] =
                          NonSystem(unit.args.messages)[NthAnswer(NonSystem(unit.args.messages), k)]
                   /\ unit.ret.response_data[k].response_time =
                          SecondsSince2023(unit.args.messages[i].timestamp)
                          - SecondsSince2023(unit.args.messages[i - 1].timestamp)

\* Cleft at 10:05, the notice that Bob joined at 10:06, Al at 13:02:03:
\* "Cleft -> Al" holds 10563, the time since the notice, and not the 10623
\* seconds since Cleft's message
C30_Witness ==
    /\ ResponsesReturned
    /\ Len(unit.args.messages) = 3
    /\ unit.args.messages[2].is_system
    /\ unit.ret # EmptyDict
    /\ Len(unit.ret.response_data) = 1
    /\ unit.ret.response_data[1].key = <<<<"C", "l", "e", "f", "t">>, <<"A", "l">>>>
    /\ unit.ret.response_data[1].response_time = 10563
    /\ SecondsSince2023(unit.args.messages[3].timestamp)
           - SecondsSince2023(unit.args.messages[1].timestamp) = 10623

\* the driver is running or has run
InMain == unit # NoneRec /\ unit.fn = "main"

\* the files whose pass raised: those main has logged an error for
FailedInMain == {unit.logged[k].chat_index : k \in {j \in 1..Len(unit.logged) : unit.logged[j].by = "main"}}

\* the files parse_file has logged an error for
FailedInParse == {unit.logged[k].chat_index : k \in {j \in 1..Len(unit.logged) : unit.logged[j].by = "parse_file"}}

\* C21: a failure while parsing or analysing one chat file never aborts
\* the batch: the files are entered in the order of the list, an exception
\* raised in a pass is caught by logging an error for that file and going
\* on with the next file (or the end of the loop after the last), a file
\* parse_file could not read has its error logged, and when main returns
\* every file of the list has been entered.
C21_BatchNeverAborted ==
    /\ [](InMain =>
            /\ unit.entered = [i \in 1..Len(unit.entered) |-> i]
            /\ \A i \in 1..Len(unit.entered) :
                   unit.args.chat_files[i] = "unreadable" => i \in FailedInParse
            /\ unit.at = "returned" => Len(unit.entered) = Len(unit.args.chat_files)
            /\ unit.at # "returned" => ENABLED MainNext)
    /\ [][(InMain /\ unit.at = "except") =>
            /\ unit'.logged = Append(unit.logged, [by |-> "main", chat_index |-> unit.chat_index])
            /\ IF unit.chat_index < Len(unit.args.chat_files)
               THEN unit'.at = "parse" /\ unit'.chat_index = unit.chat_index + 1
               ELSE unit'.at = "complete"]_vars

\* main has returned after the first of three files raised in its analysis
\* and the second could not be read: both are logged and the third has been
\* entered
C21_Witness ==
    /\ InMain
    /\ unit.at = "returned"
    /\ Len(unit.args.chat_files) = 3
    /\ unit.args.chat_files[2] = "unreadable"
    /\ 1 \in FailedInMain
    /\ 2 \in FailedInParse
    /\ unit.entered = <<1, 2, 3>>

\* the artifacts written for the file at chat_index i
ArtifactsOf(i) == {a \in unit.written : a.chat_index = i}

\* the files main has printed the skip notice for
SkippedInMain == {unit.printed[k].chat_index : k \in 1..Len(unit.printed)}

\* C22: a file whose pass has failed (main has logged an error for it) has
\* no report, card or image; a file that parsed to no messages has the
\* skip notice and no artifact.
C22_FailedLeavesNothing ==
    InMain =>
        /\ \A i \in FailedInMain : ArtifactsOf(i) = {}
        /\ \A i \in 1..Len(unit.entered) :
               unit.args.chat_files[i] # "with_messages" =>
                   i \in SkippedInMain /\ ArtifactsOf(i) = {}

\* what the code does: nothing written is taken back.  A failed file keeps
\* the artifacts made before the step that raised, the report alone or the
\* report and the card, and never has the image; its error is logged.  A
\* file without messages has the notice, no artifact, and no error logged
\* by main.
C22_FailedKeepsEarlierArtifacts ==
    InMain =>
        /\ \A i \in FailedInMain :
               ArtifactsOf(i) \in {{}, {Report(i)}, {Report(i), Card(i)}}
        /\ \A i \in 1..Len(unit.entered) :
               unit.args.chat_files[i] # "with_messages" =>
                   i \in SkippedInMain /\ ArtifactsOf(i) = {} /\ i \notin FailedInMain
        /\ \A i \in SkippedInMain : unit.args.chat_files[i] # "with_messages"

\* the image of the first file raised: its error is logged, and its report
\* and card are there
C22_Witness ==
    /\ InMain
    /\ 1 \in FailedInMain
    /\ ArtifactsOf(1) = {Report(1), Card(1)}
    /\ unit.at = "returned"

\* process_directory has ended, by returning or by an exception
DirectoryEnded ==
    unit # NoneRec /\ unit.fn = "process_directory" /\ unit.at \in {"returned", "raised"}

\* the files of the directory that parse to at least one message
WithMessages == {i \in 1..Len(unit.args.chat_files) : unit.args.chat_files[i] = "with_messages"}

\* the summaries written
Summaries == {w \in unit.written : w.output = "summary"}

\* C26: when process_directory has ended every file of the directory has
\* been attempted, the summary has been written, and every file that
\* parsed to at least one message is counted in it.
C26_EveryFileThenSummary ==
    DirectoryEnded =>
        /\ unit.entered = [i \in 1..Len(unit.args.chat_files) |-> i]
        /\ \E w \in Summaries :
               IF WithMessages = {} THEN w.summary = EmptyDict
               ELSE /\ w.summary # EmptyDict
                    /\ w.summary.total_chats = Cardinality(WithMessages)

\* what the code does: the first file that parses to a message ends the
\* call with the TypeError of json.dump (the date of a message is no
\* datetime and stays a date), its output file is left unfinished, no file
\* after it is attempted and no summary is written; only a directory of
\* which no file parses to a message is gone through to the summary, which
\* is then empty.
C26_FirstChatEndsTheCall ==
    DirectoryEnded =>
        IF WithMessages = {}
        THEN /\ unit.at = "returned"
             /\ unit.entered = [i \in 1..Len(unit.args.chat_files) |-> i]
             /\ unit.written = {[output |-> "summary", summary |-> EmptyDict]}
        ELSE /\ unit.at = "raised"
             /\ \E first \in WithMessages :
                    /\ \A i \in WithMessages : first <= i
                    /\ unit.entered = [i \in 1..first |-> i]
                    /\ unit.written = {[output |-> "processed", index |-> first,
                                        whole |-> FALSE]}

\* of three files the first parses to nothing and the second to messages:
\* the call has ended at the second, the third was never attempted and
\* there is no summary
C26_Witness ==
    /\ DirectoryEnded
    /\ Len(unit.args.chat_files) = 3
    /\ unit.args.chat_files[2] = "with_messages"
    /\ unit.entered = <<1, 2>>
    /\ unit.at = "raised"
    /\ Summaries = {}

\* the locals of the first call
Locals == <<pc, file, enc, lines, idx, messages, current_message, result, outcome>>

\* both calls have ended
BothEnded ==
    /\ pc = "done"
    /\ unit # NoneRec
    /\ unit.fn = "parse_file"
    /\ unit.pc = "done"

\* the readings of the clock a call on its own can get at its lines
Readings(n) ==
    {ts \in [1..n -> 0..MaxClock] : \A i, j \in 1..n : i <= j => ts[i] <= ts[j]}

\* the loop of _extract_messages on its own, from line i on
RECURSIVE ExtractFrom(_, _, _, _, _)
ExtractFrom(ms, cur, ls, i, ts) ==
    IF i > Len(ls) THEN FlushLast(ms, cur)
    ELSE ExtractFrom(ExtractStep(ms, cur, ls[i], ts[i]).messages,
                     ExtractStep(ms, cur, ls[i], ts[i]).current_message,
                     ls, i + 1, ts)

\* the text the first encoding that decodes gives
DecodedAlone(f) ==
    ReadWith(encodings[CHOOSE i \in 1..Len(encodings) :
                           /\ ReadWith(encodings[i], f.data) # NONE
                           /\ \A j \in 1..(i - 1) : ReadWith(encodings[j], f.data) = NONE],
             f.data)

\* the lists of messages a call on f alone can end with
MessagesAlone(f) ==
    {_process_messages(ExtractFrom(<<>>, NoneRec, Split(DecodedAlone(f)), 1, ts)) :
        ts \in Readings(Len(Split(DecodedAlone(f))))}

\* what a call of parse_file on f alone can return
ResultsAlone(f) ==
    IF ~f.exists THEN {EmptyDict}
    ELSE UNION {IF ms = <<>> THEN {EmptyDict}
                ELSE {[chat_name     |-> chat_name,
                       file_path     |-> f.path,
                       participants  |-> _extract_participants(ms),
                       messages      |-> ms,
                       message_count |-> Len(ms),
                       date_range    |-> _get_date_range(ms)] :
                          chat_name \in _extract_chat_name(f.path, ms)} :
                   ms \in MessagesAlone(f)}

\* the messages of a result
Records(r) ==
    IF r = EmptyDict THEN {} ELSE {r.messages[k] : k \in 1..Len(r.messages)}

C23_AloneIsAlone ==
    (pc = "done" /\ unit = NoneRec) => result \in ResultsAlone(file)

====
